---- MODULE Spec2Model ----
(***************************************************************************)
(* A model of the Toji launcher's installation orchestrator:               *)
(*   InstallScriptBuilder   (install-script-builder.ts)                    *)
(*   SystemSetup            (system-setup.ts)                              *)
(*   LinuxPlatformService   (platform/linux-platform-service.ts)           *)
(*   BotDownloader          (bot-downloader.ts)                            *)
(* Each component is a state machine over the variables below; the         *)
(* specifications at the end of the module compose them.                   *)
(***************************************************************************)
EXTENDS Integers, Sequences, FiniteSets, TLC

VARIABLES
  commands,      \* InstallScriptBuilder.commands
  script,        \* the lines last returned by buildScript()
  built,         \* number of commands the builder held when script was built, -1 before
  planInput,     \* the missingRequirements argument of createInstallationPlan
  plan,          \* the InstallationPlan it returned
  planPc,        \* "idle" before the call, "done" after
  env,           \* the machine as the probes see it: [os, node, claude, auth]
  hanging,       \* the requirements whose external command never completes
  setupPc,       \* the SystemSetup IPC handler that is running, "idle" when none
  requirements,  \* the requirements array of the current checkAllRequirements run
  chk,           \* its control state: [i |-> loop index, at |-> position in the body]
  inFlight,      \* indices of the requirements whose probe is awaited
  authProbed,    \* checkAuthentication was invoked in the current run
  lastSnapshot,  \* payload of the last 'system-setup:requirements-update'
  checked,       \* the list the last 'system-setup:check-requirements' resolved with
  execReturn,    \* what the last executeInstallationPlan returned: "none", "true", "false"
  setupEvent,    \* the last installation-complete / installation-error event sent
  installationAttempted,
  instPc,        \* position of the platform service's running install method, "idle" when none
  missingDeps,   \* the missingDeps argument of installAllDependencies
  scriptFiles,   \* number of generated script files that exist
  sh,            \* the spawned bash child: [st, pos, ret, code, desc]
  sudoScript,    \* the temporary privileged sub-script ($SUDO_SCRIPT) exists
  outBuf,        \* lines the child wrote to stdout, not yet delivered as 'data'
  logOutput,     \* the logOutput array local to runInstallScript
  currentProgress,      \* LinuxPlatformService.currentProgress
  onProgressCallback,   \* an observer is registered (PlatformService.onProgress)
  percents,      \* percents of the events delivered in this run, repeats collapsed
  scriptPromise, \* the promise of runInstallScript: "none", "pending", "resolved", "rejected"
  instPromise,   \* the promise of the install method: "none", "pending", "resolved", "rejected"
  instError,     \* the message it rejected with
  spawns,        \* spawn('bash', ...) calls made by the current install call
  stderr,        \* runInstallScript's stderr accumulator, one entry per chunk received
  dlPc,          \* position of BotDownloader.downloadBot, "idle" before and "done" after
  dlEvent,       \* the last 'bot:download-progress' event sent
  dlSrc,         \* "local" for a file:// release, "remote" for an https one
  dlRequest,     \* what carries the transfer: "first", "redirect" request, "copy", or
                 \* "orphan" (the redirect request of a run that already failed)
  currentDownload, \* this.currentDownload: "null", or "first" (the https.get(url) request)
  dlCancelled,   \* cleanup() was called while the transfer of this run was in flight
  dlSize,        \* release.size
  dlActual,      \* bytes the source really holds
  dlReceived,    \* downloadedBytes
  dlTmpFile,     \* the temporary download file exists
  botExe,        \* the entrypoint in the bot directory: "absent", "noexec", "exec"
  dlReturn,      \* what downloadBot returned: "none", "true", "false"
  installRuns,   \* per 'system-setup:start-installation' request: where its handler is
  downloadRuns,  \* per 'bot:download' request: where its handler is
  archivePath,   \* extractArchive's archivePath: the parts of the file name between dots
  written,       \* the files the extraction wrote into the destination
  extractResult, \* "none" before the call, "resolved", or the message of the error
  tools,         \* which of apt, pkexec, sudo `which` finds on the machine
  capabilities,  \* what checkSystemCapabilities last returned, "unknown" before
  elevCall,      \* the privileged operation under way: its name, position, argument
  invoked,       \* the elevation mechanisms the operation has invoked, in order
  elevError,     \* the message the operation rejected with
  arrays,        \* the log arrays allocated so far, by identity: their present contents
  progressLog,   \* the array currentProgress.logOutput refers to, 0 when undefined
  localLog,      \* the array runInstallScript's logOutput refers to, 0 outside it
  deliveredLogs, \* per event handed to the observer: its logOutput array, and its
                 \* contents when it was handed over
  snapPc         \* where the installation that reports progress is

builderVars == <<commands, script, built>>
planVars == <<planInput, plan, planPc>>
checkVars == <<requirements, chk, inFlight, authProbed, lastSnapshot>>
setupVars == <<env, hanging, setupPc, checkVars, checked, execReturn, setupEvent, installationAttempted>>
runVars == <<instPc, missingDeps, scriptFiles, sh, sudoScript, outBuf, logOutput,
             currentProgress, onProgressCallback, percents, scriptPromise, instPromise,
             instError, spawns, stderr>>
runVars_but_instPc == <<missingDeps, scriptFiles, sh, sudoScript, outBuf, logOutput,
                        currentProgress, onProgressCallback, percents, scriptPromise,
                        instPromise, instError, spawns, stderr>>
dlVars == <<dlPc, dlEvent, dlSrc, dlSize, dlActual, dlReceived, dlTmpFile, botExe, dlReturn,
            dlRequest, currentDownload, dlCancelled>>
ipcVars == <<installRuns, downloadRuns>>
xaVars == <<archivePath, written, extractResult>>
elevVars == <<tools, capabilities, elevCall, invoked, elevError>>
snapVars == <<arrays, progressLog, localLog, deliveredLogs, snapPc>>
vars == <<builderVars, planVars, setupVars, runVars, dlVars, ipcVars, xaVars, elevVars,
          snapVars>>

(***************************************************************************)
(* Bounds of the model.                                                    *)
(***************************************************************************)
MaxCommands == 7
MaxMissing == 3
\* installNodeJS is not called again once this many script files were left behind
MaxScriptFiles == 2

(***************************************************************************)
(* Small helpers.                                                          *)
(***************************************************************************)
Min(a, b) == IF a <= b THEN a ELSE b

RECURSIVE FilterSeq(_, _)
\* Array.prototype.filter with the predicate given as the set of kept values
FilterSeq(s, keep) ==
  IF s = <<>> THEN <<>>
  ELSE (IF Head(s) \in keep THEN <<Head(s)>> ELSE <<>>) \o FilterSeq(Tail(s), keep)

RECURSIVE Flatten(_)
Flatten(ss) == IF ss = <<>> THEN <<>> ELSE Head(ss) \o Flatten(Tail(ss))

Range(s) == {s[i] : i \in DOMAIN s}

(***************************************************************************)
(* The IPC handlers: each request runs its handler, and nothing in         *)
(* setupIpcHandlers, executeInstallationPlan or downloadBot looks at the   *)
(* requests already under way.                                             *)
(***************************************************************************)
\* requests that may be under way at once
MaxRequests == 2

Requests == 1..MaxRequests

IpcIdle ==
  /\ installRuns = [r \in Requests |-> "idle"]
  /\ downloadRuns = [r \in Requests |-> "idle"]

NoElevatedCall == [op |-> "none", pc |-> "idle", arg |-> "", deps |-> {}]

\* no privileged operation of its own, on a machine that has every tool
ElevationIdle ==
  /\ tools = [apt |-> TRUE, pkexec |-> TRUE, sudo |-> TRUE]
  /\ capabilities = "unknown"
  /\ elevCall = NoElevatedCall
  /\ invoked = <<>>
  /\ elevError = ""

\* no installation reporting progress of its own: no array allocated, none delivered
SnapshotIdle ==
  /\ arrays = <<>>
  /\ progressLog = 0
  /\ localLog = 0
  /\ deliveredLogs = <<>>
  /\ snapPc = "idle"

\* no extractArchive call of its own
ExtractIdle ==
  /\ archivePath = <<>>
  /\ written = {}
  /\ extractResult = "none"

(***************************************************************************)
(* InstallScriptBuilder                                                    *)
(* A script is a sequence of lines; a line is a record                     *)
(*   k   : what bash does with the line                                    *)
(*   pct : the percent of a progress sentinel, -1 elsewhere                *)
(*   txt : the description or command the line carries                     *)
(***************************************************************************)
Line(k, pct, txt) == [k |-> k, pct |-> pct, txt |-> txt]

InstallCommand(command, description, requiresSudo) ==
  [command |-> command, description |-> description, requiresSudo |-> requiresSudo]

\* this.commands.filter(cmd => !cmd.requiresSudo)
RegularCommands(cmds) == FilterSeq(cmds, {c \in Range(cmds) : ~c.requiresSudo})

\* this.commands.filter(cmd => cmd.requiresSudo)
SudoCommands(cmds) == FilterSeq(cmds, {c \in Range(cmds) : c.requiresSudo})

\* a header that would leave out the strict-error-exit line
ScriptHeaderLenient ==
  << Line("shebang", -1, "#!/bin/bash"),
     Line("blank", -1, ""),
     Line("fn", -1, "progress() {"),
     Line("fn", -1, "  echo PROGRESS:$1:$2"),
     Line("fn", -1, "}"),
     Line("blank", -1, "") >>

ScriptHeader ==
  << Line("shebang", -1, "#!/bin/bash"),
     Line("set-e", -1, "set -e"),
     Line("blank", -1, ""),
     Line("comment", -1, "# Toji Launcher Installation Script"),
     Line("comment", -1, "# Generated at"),
     Line("blank", -1, ""),
     Line("fn", -1, "progress() {"),
     Line("fn", -1, "  echo PROGRESS:$1:$2"),
     Line("fn", -1, "}"),
     Line("blank", -1, "") >>

\* percent of the sentinel preceding the index-th non-privileged command (0-based)
RegularPercent(index) == index * 10

\* percent of the sentinel preceding the index-th privileged command (0-based)
SudoPercent(index) == 50 + (index * 10)

RegularBlock(regular) ==
  IF Len(regular) > 0
  THEN << Line("comment", -1, "# Commands that do not require sudo") >> \o
       Flatten([i \in 1..Len(regular) |->
         << Line("progress", RegularPercent(i - 1), regular[i].description),
            Line("echo", -1, regular[i].description),
            Line("cmd", -1, regular[i].command),
            Line("blank", -1, "") >>])
  ELSE <<>>

\* the single line through which the privileged sub-script is run
ElevationLinesOnce(sudo) == << Line("pkexec", -1, "pkexec bash $SUDO_SCRIPT") >>

ElevationLinesPerCommand(sudo) ==
  [i \in 1..Len(sudo) |-> Line("pkexec", -1, "pkexec bash $SUDO_SCRIPT")]

ElevationLines(sudo) == ElevationLinesOnce(sudo)

SudoBlock(sudo) ==
  IF Len(sudo) > 0
  THEN << Line("comment", -1, "# Commands that require sudo"),
          Line("echo", -1, "The following operations require administrator privileges:") >> \o
       [i \in 1..Len(sudo) |-> Line("echo", -1, sudo[i].description)] \o
       << Line("blank", -1, ""),
          Line("comment", -1, "# Create temporary sudo script"),
          Line("mktemp", -1, "SUDO_SCRIPT=$(mktemp /tmp/toji-sudo-XXXXXX.sh)"),
          Line("heredoc", -1, "cat > $SUDO_SCRIPT << 'EOF'"),
          Line("sub-shebang", -1, "#!/bin/bash"),
          Line("sub-set-e", -1, "set -e") >> \o
       Flatten([i \in 1..Len(sudo) |->
         << Line("sub-progress", SudoPercent(i - 1), sudo[i].description),
            Line("sub-echo", -1, sudo[i].description),
            Line("sub-cmd", -1, sudo[i].command),
            Line("sub-blank", -1, "") >>]) \o
       << Line("eof", -1, "EOF"),
          Line("blank", -1, ""),
          Line("comment", -1, "# Run with pkexec for GUI password prompt") >> \o
       ElevationLines(sudo) \o
       << Line("rm", -1, "rm -f $SUDO_SCRIPT") >>
  ELSE <<>>

ScriptTrailer ==
  << Line("blank", -1, ""),
     Line("progress", 100, "Installation complete"),
     Line("echo", -1, "All installations completed successfully") >>

\* InstallScriptBuilder.buildScript()
BuildScriptOf(cmds) ==
  ScriptHeader \o RegularBlock(RegularCommands(cmds)) \o SudoBlock(SudoCommands(cmds))
    \o ScriptTrailer

\* number of lines of a script that invoke the elevation mechanism
Elevations(s) == Cardinality({i \in DOMAIN s : s[i].k = "pkexec"})

\* number of commands added with requiresSudo = true
NumSudo(cmds) == Cardinality({i \in DOMAIN cmds : cmds[i].requiresSudo})

\* a builder just constructed: private commands: InstallCommand[] = []
BuilderIdle ==
  /\ commands = <<>>
  /\ script = <<>>
  /\ built = -1

(***************************************************************************)
(* LinuxPlatformService: progress, and the run of a generated script.      *)
(***************************************************************************)
Undefined == "undefined"

\* currentProgress before any update; progress -1 and logOutput <<>> stand for undefined
NoProgress ==
  [step |-> Undefined, progress |-> -1, currentCommand |-> Undefined,
   details |-> Undefined, error |-> Undefined, logOutput |-> <<>>]

\* the bash child: err is what it has written to its standard error so far, failed
\* whether one of its commands has exited non-zero
NoChild ==
  [st |-> "none", pos |-> 0, ret |-> 0, code |-> 0, desc |-> "", err |-> <<>>,
   failed |-> FALSE]

RunIdle ==
  /\ instPc = "idle"
  /\ missingDeps = {}
  /\ scriptFiles = 0
  /\ sh = NoChild
  /\ sudoScript = FALSE
  /\ outBuf = <<>>
  /\ logOutput = <<>>
  /\ currentProgress = NoProgress
  /\ onProgressCallback = FALSE
  /\ percents = <<>>
  /\ scriptPromise = "none"
  /\ instPromise = "none"
  /\ instError = ""
  /\ spawns = 0
  /\ stderr = <<>>

\* updateProgress hands currentProgress to the observer, if one is registered:
\* the percents seen so far, extended by the percent of one more event
Delivered(ps, cb, p) ==
  IF cb /\ (ps = <<>> \/ ps[Len(ps)] # p) THEN Append(ps, p) ELSE ps

\* a line on the child's stdout
Out(k, pct, txt) == [k |-> k, pct |-> pct, txt |-> txt]

TrivialKinds ==
  {"shebang", "set-e", "blank", "comment", "fn", "sub-shebang", "sub-set-e", "sub-blank"}

\* the next line at or after pos that does something, Len(s) + 1 when there is none
NextEffective(s, pos) ==
  LET later == {i \in pos..Len(s) : s[i].k \notin TrivialKinds}
  IN IF later = {} THEN Len(s) + 1 ELSE CHOOSE i \in later : \A j \in later : i <= j

IndexOfKind(s, k) == CHOOSE i \in DOMAIN s : s[i].k = k

\* what a command that exited zero may have done to the machine
CommandEffects(command, e) ==
  CASE command \in {"apt-get install -y nodejs npm", "apt-get install -y nodejs"} ->
         {[e EXCEPT !.node = n] : n \in {"absent", "old", "ok"} \ 
                                        (IF e.node = "absent" THEN {} ELSE {"absent"})}
    [] command = "npm install -g @anthropic-ai/claude-code" ->
         {[e EXCEPT !.claude = c] : c \in {TRUE, e.claude}}
    [] OTHER -> {e}

\* runInstallScript up to spawn: the log array is taken from currentProgress, an
\* update carrying a copy with the '>>>' line is delivered, bash is spawned
RunInstallScriptBegin(cp, description) ==
  /\ logOutput' = cp.logOutput
  /\ currentProgress' = [cp EXCEPT !.currentCommand = description,
                                   !.logOutput = Append(cp.logOutput, ">>> " \o description)]
  /\ sh' = [st |-> "running", pos |-> 1, ret |-> 0, code |-> 0, desc |-> description,
            err |-> <<>>, failed |-> FALSE]
  /\ stderr' = <<>>
  /\ outBuf' = <<>>
  /\ sudoScript' = FALSE
  /\ scriptPromise' = "pending"
  /\ spawns' = spawns + 1

\* a chunk of standard-error text; sudo: the text includes '[sudo]'
Err(sudo, txt) == [sudo |-> sudo, txt |-> txt]

\* what a command that exits non-zero has written to standard error
CommandErrors ==
  { <<>>,
    <<Err(FALSE, "E: Unable to locate package")>>,
    <<Err(TRUE, "[sudo] password for user:"), Err(FALSE, "E: Unable to locate package")>> }

\* the script (kind "set-e") or its sub-script (kind "sub-set-e") runs under set -e
Strict(s, kind) == \E i \in DOMAIN s : s[i].k = kind

\* bash runs the next line of the script that does something; under set -e a line
\* that exits non-zero ends the shell with that code, without it the shell goes on
\* with the next line
ScriptStep ==
  /\ sh.st = "running"
  /\ LET pos == NextEffective(script, sh.pos)
         line == script[pos]
         exit(code) == sh' = [sh EXCEPT !.st = "exited", !.code = code]
         abort(code, e) == sh' = [sh EXCEPT !.st = "exited", !.code = code,
                                            !.err = @ \o e, !.failed = TRUE]
         resume(n, e) == sh' = [sh EXCEPT !.pos = n, !.err = @ \o e, !.failed = TRUE]
         mainFail(code, e) ==
           IF Strict(script, "set-e") THEN abort(code, e) ELSE resume(pos + 1, e)
         subFail(code, e) ==
           IF ~Strict(script, "sub-set-e") THEN resume(pos + 1, e)
           ELSE IF Strict(script, "set-e") THEN abort(code, e)
           ELSE sh' = [sh EXCEPT !.pos = sh.ret, !.ret = 0, !.err = @ \o e,
                                 !.failed = TRUE]
         fail(code, e) == IF line.k = "sub-cmd" THEN subFail(code, e) ELSE mainFail(code, e)
         goto(n) == sh' = [sh EXCEPT !.pos = n]
     IN IF pos > Len(script)
        THEN exit(0) /\ UNCHANGED <<outBuf, env, sudoScript>>
        ELSE
          \/ /\ line.k \in {"progress", "sub-progress"}
             /\ outBuf' = Append(outBuf, Out("PROGRESS", line.pct, line.txt))
             /\ goto(pos + 1)
             /\ UNCHANGED <<env, sudoScript>>
          \/ /\ line.k \in {"echo", "sub-echo"}
             /\ outBuf' = Append(outBuf, Out("text", -1, line.txt))
             /\ goto(pos + 1)
             /\ UNCHANGED <<env, sudoScript>>
          \/ /\ line.k \in {"cmd", "sub-cmd"}
             /\ \/ /\ env' \in CommandEffects(line.txt, env)
                   /\ outBuf' = Append(outBuf, Out("text", -1, line.txt))
                   /\ goto(pos + 1)
                \/ /\ \E e \in CommandErrors : fail(1, e)
                   /\ UNCHANGED <<outBuf, env>>
             /\ UNCHANGED sudoScript
          \/ /\ line.k = "mktemp"
             /\ sudoScript' = TRUE
             /\ goto(pos + 1)
             /\ UNCHANGED <<outBuf, env>>
          \/ /\ line.k = "heredoc"
             /\ goto(IndexOfKind(script, "eof") + 1)
             /\ UNCHANGED <<outBuf, env, sudoScript>>
          \/ /\ line.k = "pkexec"
             /\ \/ sh' = [sh EXCEPT !.pos = IndexOfKind(script, "heredoc") + 1,
                                    !.ret = pos + 1]
                \/ fail(126, <<Err(FALSE, "Request dismissed")>>)
             /\ UNCHANGED <<outBuf, env, sudoScript>>
          \/ /\ line.k = "eof"
             /\ sh' = [sh EXCEPT !.pos = sh.ret, !.ret = 0]
             /\ UNCHANGED <<outBuf, env, sudoScript>>
          \/ /\ line.k = "rm"
             /\ sudoScript' = FALSE
             /\ goto(pos + 1)
             /\ UNCHANGED <<outBuf, env>>
  /\ UNCHANGED <<instPc, missingDeps, scriptFiles, logOutput, currentProgress,
                 onProgressCallback, percents, scriptPromise, instPromise, instError, spawns, stderr>>
  /\ UNCHANGED <<hanging, setupPc, checkVars, checked, execReturn, setupEvent, installationAttempted>>
  /\ UNCHANGED <<builderVars, planVars, dlVars, ipcVars, xaVars, elevVars, snapVars>>

\* text.match(/PROGRESS:(\d+):(.+)/): the first sentinel of the chunk, 0 when none
FirstSentinel(text) ==
  LET hits == {i \in DOMAIN text : text[i].k = "PROGRESS"}
  IN IF hits = {} THEN 0 ELSE CHOOSE i \in hits : \A j \in hits : i <= j

\* the lines of a chunk that go to the log: !line.startsWith('PROGRESS:')
LogLines(text) ==
  LET kept == FilterSeq(text, {l \in Range(text) : l.k # "PROGRESS"})
  IN [i \in 1..Len(kept) |-> kept[i].txt]

\* child.stdout.on('data'): a chunk of n lines
StdoutData(n) ==
  /\ sh.st \in {"running", "exited"}
  /\ n \in 1..Len(outBuf)
  /\ LET text == SubSeq(outBuf, 1, n)
         m == FirstSentinel(text)
         lines == LogLines(text)
         progress == IF m = 0 THEN currentProgress.progress ELSE text[m].pct
     IN /\ logOutput' = logOutput \o lines
        /\ currentProgress' =
             [currentProgress EXCEPT
                !.progress = progress,
                !.currentCommand = IF m = 0 THEN @ ELSE text[m].txt,
                !.logOutput = IF lines = <<>> THEN @ ELSE logOutput']
        /\ percents' = Delivered(percents, onProgressCallback, progress)
  /\ outBuf' = SubSeq(outBuf, n + 1, Len(outBuf))
  /\ UNCHANGED <<instPc, missingDeps, scriptFiles, sh, sudoScript,
                 onProgressCallback, scriptPromise, instPromise, instError, spawns, stderr>>
  /\ UNCHANGED <<setupVars, builderVars, planVars, dlVars, ipcVars, xaVars, elevVars, snapVars>>

RECURSIVE JoinText(_)
\* stderr += text, over the chunks received
JoinText(chunks) == IF chunks = <<>> THEN "" ELSE Head(chunks) \o JoinText(Tail(chunks))

\* child.stderr.on('data'): a chunk holding the next n writes of the child
StderrData(n) ==
  /\ sh.st \in {"running", "exited"}
  /\ n >= 1 /\ Len(stderr) + n <= Len(sh.err)
  /\ LET text == SubSeq(sh.err, Len(stderr) + 1, Len(stderr) + n)
         txt == JoinText([i \in 1..n |-> text[i].txt])
     IN /\ stderr' = Append(stderr, txt)
        /\ IF \E i \in 1..n : text[i].sudo
           THEN UNCHANGED <<logOutput, currentProgress, percents>>
           ELSE /\ logOutput' = Append(logOutput, "stderr: " \o txt)
                /\ currentProgress' = [currentProgress EXCEPT !.logOutput = logOutput']
                /\ percents' = Delivered(percents, onProgressCallback, currentProgress.progress)
  /\ UNCHANGED <<instPc, missingDeps, scriptFiles, sh, sudoScript, outBuf,
                 onProgressCallback, scriptPromise, instPromise, instError, spawns>>
  /\ UNCHANGED <<setupVars, builderVars, planVars, dlVars, ipcVars, xaVars, elevVars, snapVars>>

\* an error message that would leave the captured standard error out
FailureMessageCodeOnly(code, captured) == "Installation failed with code " \o ToString(code)

\* `Installation failed with code ${code}: ${stderr}`
FailureMessage(code, captured) ==
  "Installation failed with code " \o ToString(code) \o ": " \o JoinText(captured)

\* child.on('close'): after the child exited and its stdout and stderr were drained
ChildClose ==
  /\ sh.st = "exited"
  /\ outBuf = <<>>
  /\ JoinText(stderr) = JoinText([i \in DOMAIN sh.err |-> sh.err[i].txt])
  /\ sh' = [sh EXCEPT !.st = "closed"]
  /\ IF sh.code = 0
     THEN /\ logOutput' = Append(logOutput, sh.desc \o " completed successfully")
          /\ currentProgress' = [currentProgress EXCEPT !.logOutput = logOutput']
          /\ scriptPromise' = "resolved"
          /\ UNCHANGED instError
     ELSE /\ logOutput' = Append(logOutput, FailureMessage(sh.code, stderr))
          /\ currentProgress' =
               [currentProgress EXCEPT !.logOutput = logOutput',
                  !.error = FailureMessage(sh.code, stderr)]
          /\ scriptPromise' = "rejected"
          /\ instError' = FailureMessage(sh.code, stderr)
  /\ percents' = Delivered(percents, onProgressCallback, currentProgress.progress)
  /\ UNCHANGED <<instPc, missingDeps, scriptFiles, sudoScript, outBuf,
                 onProgressCallback, instPromise, spawns, stderr>>
  /\ UNCHANGED <<setupVars, builderVars, planVars, dlVars, ipcVars, xaVars, elevVars, snapVars>>

\* child.on('error'): bash could not be spawned
ChildError ==
  /\ sh.st = "running" /\ sh.pos = 1
  /\ sh' = [sh EXCEPT !.st = "failed"]
  /\ logOutput' = Append(logOutput, "Script error: spawn")
  /\ currentProgress' = [currentProgress EXCEPT !.logOutput = logOutput', !.error = "spawn"]
  /\ percents' = Delivered(percents, onProgressCallback, currentProgress.progress)
  /\ scriptPromise' = "rejected"
  /\ instError' = "spawn"
  /\ UNCHANGED <<instPc, missingDeps, scriptFiles, sudoScript, outBuf,
                 onProgressCallback, instPromise, spawns, stderr>>
  /\ UNCHANGED <<setupVars, builderVars, planVars, dlVars, ipcVars, xaVars, elevVars, snapVars>>

(***************************************************************************)
(* LinuxPlatformService.installAllDependencies                             *)
(***************************************************************************)
\* the commands added to the builder for the given missing dependencies
InstallAllCommands(deps) ==
  (IF "Node.js" \in deps
   THEN << InstallCommand("apt-get update", "Updating package list", TRUE),
           InstallCommand("apt-get install -y nodejs npm", "Installing Node.js and npm", TRUE) >>
   ELSE <<>>) \o
  (IF "Claude Code CLI" \in deps
   THEN << InstallCommand("npm install -g @anthropic-ai/claude-code",
                          "Installing Claude Code CLI", TRUE) >>
   ELSE <<>>)

\* the post-install probes, in order: the message of the first that fails, "" if none
\*   execAsync('node --version'), execAsync('claude --version')
VerificationErrorNodeOnly(deps, e) ==
  IF "Node.js" \in deps /\ e.node = "absent"
  THEN "Node.js installation verification failed"
  ELSE ""

VerificationError(deps, e) ==
  IF "Node.js" \in deps /\ e.node = "absent"
  THEN "Node.js installation verification failed"
  ELSE IF "Claude Code CLI" \in deps /\ ~e.claude
  THEN "Claude Code CLI installation verification failed"
  ELSE ""

\* installAllDependencies up to its first await: the 'Preparing installation' update
\* and the builder's commands
InstallAllBegin(deps) ==
  /\ missingDeps' = deps
  /\ currentProgress' = [currentProgress EXCEPT
                           !.step = "Preparing installation", !.progress = 0,
                           !.details = "Building installation script...",
                           !.logOutput = <<>>]
  /\ percents' = Delivered(<<>>, onProgressCallback', 0)
  /\ commands' = InstallAllCommands(deps)
  /\ instPc' = "all-save"
  /\ instPromise' = "pending"
  /\ instError' = ""
  /\ spawns' = 0
  /\ UNCHANGED stderr
  /\ UNCHANGED <<script, built, scriptFiles, sh, sudoScript, outBuf, logOutput, scriptPromise>>

\* builder.saveToFile() wrote the script; runInstallScript begins
InstallAllRun ==
  /\ instPc = "all-save"
  /\ script' = BuildScriptOf(commands)
  /\ built' = Len(commands)
  /\ scriptFiles' = scriptFiles + 1
  /\ RunInstallScriptBegin(currentProgress, "Installing all dependencies")
  /\ percents' = Delivered(percents, onProgressCallback, currentProgress.progress)
  /\ instPc' = "all-script"
  /\ UNCHANGED <<commands, missingDeps, onProgressCallback, instPromise, instError>>
  /\ UNCHANGED <<setupVars, planVars, dlVars, ipcVars, xaVars, elevVars, snapVars>>

\* a cleanup that would run only after a successful script
UnlinkedOnSuccess(files, settled) == IF settled = "resolved" THEN files - 1 ELSE files

\* finally { await fs.promises.unlink(scriptPath) }: the script files left, however
\* runInstallScript and the verification settled
Unlinked(files, settled) == files - 1

\* an installAllDependencies that would build and run the script again after a failure
AfterScriptRetrying(settled) == IF settled = "rejected" THEN "all-save" ELSE "idle"

\* where installAllDependencies goes once runInstallScript settled: through the
\* finally block and out, whether it resolved or rejected
AfterScript(settled) == "idle"

\* the rejection of fs.promises.unlink when the script file cannot be removed
UnlinkError == "ENOENT: no such file or directory, unlink"

\* runInstallScript settled: the verification probes, the final update, and the
\* finally block that unlinks the script. When the unlink rejects (unlinkOk is
\* FALSE) the rejection leaves the finally block in place of whatever the try
\* block produced
InstallAllSettleWith(unlinkOk) ==
  /\ instPc = "all-script"
  /\ scriptPromise \in {"resolved", "rejected"}
  /\ LET verr == VerificationError(missingDeps, env)
         success == scriptPromise = "resolved" /\ verr = ""
     IN /\ IF success
           THEN /\ currentProgress' = [currentProgress EXCEPT
                                         !.step = "Installation complete", !.progress = 100,
                                         !.details = "All dependencies installed successfully"]
                /\ percents' = Delivered(percents, onProgressCallback, 100)
           ELSE UNCHANGED <<currentProgress, percents>>
        /\ IF unlinkOk
           THEN /\ instPromise' = IF success THEN "resolved" ELSE "rejected"
                /\ instError' = IF scriptPromise = "resolved" /\ verr # "" THEN verr
                                 ELSE instError
                /\ scriptFiles' = Unlinked(scriptFiles, scriptPromise)
           ELSE /\ instPromise' = "rejected"
                /\ instError' = UnlinkError
                /\ UNCHANGED scriptFiles
  /\ instPc' = AfterScript(scriptPromise)
  /\ UNCHANGED <<missingDeps, sh, sudoScript, outBuf, logOutput, onProgressCallback,
                 scriptPromise, spawns, stderr>>
  /\ UNCHANGED <<setupVars, builderVars, planVars, dlVars, ipcVars, xaVars, elevVars, snapVars>>

\* the same where the script file is there to be removed
InstallAllSettle == InstallAllSettleWith(TRUE)

(***************************************************************************)
(* LinuxPlatformService.installNodeJS: apt, then NodeSource, then portable *)
(***************************************************************************)
AptCommands ==
  << InstallCommand("apt-get update", "Updating package list", TRUE),
     InstallCommand("apt-get install -y nodejs npm", "Installing Node.js and npm via apt", TRUE) >>

NodeSourceCommands ==
  << InstallCommand("curl -fsSL https://deb.nodesource.com/setup_lts.x | bash -",
                    "Adding NodeSource repository", TRUE),
     InstallCommand("apt-get install -y nodejs", "Installing Node.js from NodeSource", TRUE) >>

\* installNodeJS up to the first await of installNodeJSWithApt
InstallNodeJS ==
  /\ instPc = "idle"
  /\ scriptFiles < MaxScriptFiles
  /\ currentProgress' = [currentProgress EXCEPT
                           !.step = "Installing Node.js", !.progress = 0,
                           !.details = "Preparing Node.js installation...",
                           !.logOutput = <<>>]
  /\ percents' = Delivered(<<>>, onProgressCallback, 0)
  /\ commands' = AptCommands
  /\ instPc' = "apt-save"
  /\ instPromise' = "pending"
  /\ instError' = ""
  /\ spawns' = 0
  /\ UNCHANGED stderr
  /\ UNCHANGED <<script, built, missingDeps, scriptFiles, sh, sudoScript, outBuf, logOutput,
                 onProgressCallback, scriptPromise>>
  /\ UNCHANGED <<setupVars, planVars, dlVars, ipcVars, xaVars, elevVars, snapVars>>

\* saveToFile() wrote the strategy's script; runInstallScript begins
StrategyRun(at, description, next) ==
  /\ instPc = at
  /\ script' = BuildScriptOf(commands)
  /\ built' = Len(commands)
  /\ scriptFiles' = scriptFiles + 1
  /\ RunInstallScriptBegin(currentProgress, description)
  /\ percents' = Delivered(percents, onProgressCallback, currentProgress.progress)
  /\ instPc' = next
  /\ UNCHANGED <<commands, missingDeps, onProgressCallback, instPromise, instError>>
  /\ UNCHANGED <<setupVars, planVars, dlVars, ipcVars, xaVars, elevVars, snapVars>>

AptRun == StrategyRun("apt-save", "Installing Node.js via apt-get", "apt-script")

NodeSourceRun == StrategyRun("ns-save", "Installing Node.js via NodeSource", "ns-script")

\* the strategy's script exited zero: its file is unlinked and installNodeJS resolves
StrategyDone(at) ==
  /\ instPc = at
  /\ scriptPromise = "resolved"
  /\ scriptFiles' = scriptFiles - 1
  /\ instPromise' = "resolved"
  /\ instPc' = "idle"
  /\ UNCHANGED <<missingDeps, sh, sudoScript, outBuf, logOutput, currentProgress,
                 onProgressCallback, percents, scriptPromise, instError, spawns, stderr>>
  /\ UNCHANGED <<setupVars, builderVars, planVars, dlVars, ipcVars, xaVars, elevVars, snapVars>>

AptDone == StrategyDone("apt-script")

NodeSourceDone == StrategyDone("ns-script")

\* a chain that would go from apt straight to the portable install
AfterFailureSkippingNodeSource(at) == "portable-download"

\* the nesting of the catch blocks of installNodeJS: what is tried after a failure
AfterFailure(at) == IF at = "apt-script" THEN "ns-save" ELSE "portable-download"

\* catch (aptError): installNodeJSWithNodeSource begins (the apt script is not unlinked)
AptFailed ==
  /\ instPc = "apt-script"
  /\ scriptPromise = "rejected"
  /\ commands' = NodeSourceCommands
  /\ instPc' = AfterFailure("apt-script")
  /\ UNCHANGED <<script, built>>
  /\ UNCHANGED runVars_but_instPc
  /\ UNCHANGED <<setupVars, planVars, dlVars, ipcVars, xaVars, elevVars, snapVars>>

\* catch (nodeSourceError): installPortableNodeJS begins, up to its first await
NodeSourceFailed ==
  /\ instPc = "ns-script"
  /\ scriptPromise = "rejected"
  /\ currentProgress' = [currentProgress EXCEPT
                           !.step = "Downloading portable Node.js", !.progress = 30,
                           !.currentCommand = "Downloading Node.js LTS..."]
  /\ percents' = Delivered(percents, onProgressCallback, 30)
  /\ instPc' = AfterFailure("ns-script")
  /\ UNCHANGED <<missingDeps, scriptFiles, sh, sudoScript, outBuf, logOutput,
                 onProgressCallback, scriptPromise, instPromise, instError, spawns, stderr>>
  /\ UNCHANGED <<setupVars, builderVars, planVars, dlVars, ipcVars, xaVars, elevVars, snapVars>>

\* mkdir and downloadFile settled: on success the 'Extracting Node.js' update
PortableDownload(ok) ==
  /\ instPc = "portable-download"
  /\ IF ok
     THEN /\ currentProgress' = [currentProgress EXCEPT
                                   !.step = "Extracting Node.js", !.progress = 60]
          /\ percents' = Delivered(percents, onProgressCallback, 60)
          /\ instPc' = "portable-extract"
          /\ UNCHANGED <<instPromise, instError>>
     ELSE /\ instPromise' = "rejected"
          /\ instError' = "download failed"
          /\ instPc' = "idle"
          /\ UNCHANGED <<currentProgress, percents>>
  /\ UNCHANGED <<missingDeps, scriptFiles, sh, sudoScript, outBuf, logOutput,
                 onProgressCallback, scriptPromise, spawns, stderr>>
  /\ UNCHANGED <<setupVars, builderVars, planVars, dlVars, ipcVars, xaVars, elevVars, snapVars>>

\* tar, rm, rename settled: on success node v20 is on PATH and the final update is made
PortableExtract(ok) ==
  /\ instPc = "portable-extract"
  /\ IF ok
     THEN /\ env' = [env EXCEPT !.node = "ok"]
          /\ currentProgress' = [currentProgress EXCEPT
                                   !.step = "Node.js installation complete", !.progress = 100,
                                   !.details = "Installed portable Node.js"]
          /\ percents' = Delivered(percents, onProgressCallback, 100)
          /\ instPromise' = "resolved"
          /\ UNCHANGED instError
     ELSE /\ instPromise' = "rejected"
          /\ instError' = "extract failed"
          /\ UNCHANGED <<env, currentProgress, percents>>
  /\ instPc' = "idle"
  /\ UNCHANGED <<missingDeps, scriptFiles, sh, sudoScript, outBuf, logOutput,
                 onProgressCallback, scriptPromise, spawns, stderr>>
  /\ UNCHANGED <<hanging, setupPc, checkVars, checked, execReturn, setupEvent, installationAttempted>>
  /\ UNCHANGED <<builderVars, planVars, dlVars, ipcVars, xaVars, elevVars, snapVars>>

(***************************************************************************)
(* BotDownloader                                                           *)
(* The progress of a DownloadProgress event is held in halves of a percent *)
(* (Math.min(progress * 0.5, 50) need not be a whole number): Pct(50) is   *)
(* 50%.                                                                    *)
(***************************************************************************)
Pct(p) == 2 * p

DownloadProgress(stage, progress, downloadedBytes) ==
  [stage |-> stage, progress |-> progress, downloadedBytes |-> downloadedBytes]

NoDownloadEvent == DownloadProgress("none", 0, 0)

DownloadIdle ==
  /\ dlPc = "idle"
  /\ dlEvent = NoDownloadEvent
  /\ dlSrc = "none"
  /\ dlSize = 0
  /\ dlActual = 0
  /\ dlReceived = 0
  /\ dlTmpFile = FALSE
  /\ botExe = "absent"
  /\ dlReturn = "none"
  /\ dlRequest = "none"
  /\ currentDownload = "null"
  /\ dlCancelled = FALSE

\* Math.round(x / y) for x >= 0, y > 0: halves round up
Round(x, y) == (2 * x + y) \div (2 * y)

\* the same percent without Math.min(..., 50)
DownloadPercentUncapped(downloadedBytes, totalSize) ==
  Round(downloadedBytes * 100, totalSize)

\* Math.min(Math.round((downloadedBytes / totalSize) * 100) * 0.5, 50), in halves
\* of a percent
DownloadPercent(downloadedBytes, totalSize) ==
  Min(Round(downloadedBytes * 100, totalSize), Pct(50))

\* the event of lines 132-136
ExtractingEventAsVerifying == DownloadProgress("verifying", Pct(50), 0)

ExtractingEvent == DownloadProgress("extracting", Pct(50), 0)

\* the catch block of downloadBot: the error event, and false is returned
DownloadFailed ==
  /\ dlEvent' = DownloadProgress("error", Pct(0), 0)
  /\ dlReturn' = "false"
  /\ dlPc' = "done"

\* ipcMain.handle('bot:download'): downloadBot up to its first await
DownloadBot ==
  /\ dlPc \in {"idle", "done"}
  /\ dlEvent' = DownloadProgress("checking", Pct(0), 0)
  /\ dlPc' = "release"
  /\ dlReturn' = "none"
  /\ dlSrc' = "none"
  /\ dlSize' = 0
  /\ dlActual' = 0
  /\ dlReceived' = 0
  /\ dlRequest' = "none"
  /\ dlCancelled' = FALSE
  /\ UNCHANGED <<dlTmpFile, botExe, currentDownload>>
  /\ UNCHANGED <<builderVars, planVars, setupVars, runVars, ipcVars, xaVars, elevVars, snapVars>>

\* getLatestRelease and mkdir settled: a local bundle of `size` bytes, or the remote
\* release whose file holds `actual` bytes; the first 'downloading' event; downloadFile
\* opens the destination
ReleaseResolved(src, size, actual, mkdirOk) ==
  /\ dlPc = "release"
  /\ src = "local" => actual = size
  /\ IF mkdirOk
     THEN /\ dlEvent' = DownloadProgress("downloading", Pct(0), 0)
          /\ dlSrc' = src
          /\ dlSize' = size
          /\ dlActual' = actual
          /\ dlTmpFile' = TRUE
          /\ dlPc' = IF src = "local" THEN "streaming" ELSE "request"
          /\ dlRequest' = IF src = "local" THEN "copy" ELSE "first"
          /\ currentDownload' = IF src = "local" THEN currentDownload ELSE "first"
          /\ UNCHANGED dlReturn
     ELSE /\ DownloadFailed
          /\ UNCHANGED <<dlSrc, dlSize, dlActual, dlTmpFile, dlRequest, currentDownload>>
  /\ UNCHANGED <<dlReceived, botExe, dlCancelled>>
  /\ UNCHANGED <<builderVars, planVars, setupVars, runVars, ipcVars, xaVars, elevVars, snapVars>>

\* the answer to https.get(url): "ok" (200), "redirect" (301/302 with a location),
\* "no-location", "status" (any other status), "error" (request 'error': the partial
\* file is unlinked)
Response(answer) ==
  /\ dlPc = "request"
  /\ CASE answer = "ok" -> dlPc' = "streaming" /\ UNCHANGED <<dlEvent, dlReturn, dlTmpFile>>
       [] answer = "redirect" -> dlPc' = "redirected" /\ UNCHANGED <<dlEvent, dlReturn, dlTmpFile>>
       [] answer \in {"no-location", "status"} -> DownloadFailed /\ UNCHANGED dlTmpFile
       [] answer = "error" -> DownloadFailed /\ dlTmpFile' = FALSE
  /\ dlRequest' = IF answer = "redirect" THEN "redirect" ELSE dlRequest
  /\ UNCHANGED <<dlSrc, dlSize, dlActual, dlReceived, botExe, currentDownload, dlCancelled>>
  /\ UNCHANGED <<builderVars, planVars, setupVars, runVars, ipcVars, xaVars, elevVars, snapVars>>

\* the answer to https.get(redirectUrl): whatever its status, the response is
\* streamed; an 'error' of this request has no listener and nothing settles
RedirectResponse(ok) ==
  /\ dlPc = "redirected"
  /\ dlPc' = IF ok THEN "streaming" ELSE "stuck"
  /\ UNCHANGED <<dlEvent, dlSrc, dlSize, dlActual, dlReceived, dlTmpFile, botExe, dlReturn>>
  /\ UNCHANGED <<dlRequest, currentDownload, dlCancelled>>
  /\ UNCHANGED <<builderVars, planVars, setupVars, runVars, ipcVars, xaVars, elevVars, snapVars>>

\* the 'error' handler of the https.get(url) request (lines 235-238) after that
\* request was answered with a redirect: its response is never consumed and its
\* socket stays attached to it, so a later socket error still reaches the handler.
\* The file is unlinked and downloadFile rejects, while the redirected request,
\* which nothing holds, goes on streaming
FirstRequestError ==
  /\ dlRequest = "redirect"
  /\ dlPc \in {"redirected", "streaming"}
  /\ DownloadFailed
  /\ dlTmpFile' = FALSE
  /\ dlRequest' = "orphan"
  /\ UNCHANGED <<dlSrc, dlSize, dlActual, dlReceived, botExe, currentDownload, dlCancelled>>
  /\ UNCHANGED <<builderVars, planVars, setupVars, runVars, ipcVars, xaVars, elevVars, snapVars>>

\* the response (or read stream) of the transfer delivers 'data' events: while
\* downloadFile is pending, and after it was rejected by the first request's
\* 'error' while the redirected response still streams
Flowing == dlPc = "streaming" \/ (dlPc = "done" /\ dlRequest = "orphan")

\* on('data'): a chunk of n bytes
DownloadData(n) ==
  /\ Flowing
  /\ dlReceived + n <= dlActual
  /\ dlReceived' = dlReceived + n
  /\ dlEvent' = DownloadProgress("downloading", DownloadPercent(dlReceived', dlSize), dlReceived')
  /\ UNCHANGED <<dlPc, dlSrc, dlSize, dlActual, dlTmpFile, botExe, dlReturn>>
  /\ UNCHANGED <<dlRequest, currentDownload, dlCancelled>>
  /\ UNCHANGED <<builderVars, planVars, setupVars, runVars, ipcVars, xaVars, elevVars, snapVars>>

\* on('finish'): downloadFile resolves and the 'extracting' event is sent
DownloadFinish ==
  /\ dlPc = "streaming"
  /\ dlReceived = dlActual
  /\ dlEvent' = ExtractingEvent
  /\ dlPc' = "extract"
  /\ UNCHANGED <<dlSrc, dlSize, dlActual, dlReceived, dlTmpFile, botExe, dlReturn>>
  /\ UNCHANGED <<dlRequest, currentDownload, dlCancelled>>
  /\ UNCHANGED <<builderVars, planVars, setupVars, runVars, ipcVars, xaVars, elevVars, snapVars>>

\* a stream 'error' rejects downloadFile; the handlers of the https branch unlink
\* the partial file first, those of the file:// branch do not
DownloadStreamError ==
  /\ dlPc = "streaming"
  /\ DownloadFailed
  /\ dlTmpFile' = IF dlSrc = "local" THEN dlTmpFile ELSE FALSE
  /\ UNCHANGED <<dlSrc, dlSize, dlActual, dlReceived, botExe>>
  /\ UNCHANGED <<dlRequest, currentDownload, dlCancelled>>
  /\ UNCHANGED <<builderVars, planVars, setupVars, runVars, ipcVars, xaVars, elevVars, snapVars>>

\* the transfer of the current run is under way
TransferInFlight == dlPc \in {"request", "redirected", "streaming"}

\* cleanup() while a transfer is in flight: currentDownload, when set, is aborted
\* and cleared. Aborting the https.get(url) request before its response makes the
\* request emit 'error' (the partial file is unlinked, downloadFile rejects);
\* aborting it while its response streams destroys the response, and neither
\* 'finish' nor 'error' of the file follows. The redirect request and the streams
\* of a local copy are not held in currentDownload.
Cleanup ==
  /\ TransferInFlight
  /\ ~dlCancelled
  /\ dlCancelled' = TRUE
  /\ currentDownload' = "null"
  /\ CASE currentDownload = "first" /\ dlSrc = "remote" /\ dlPc = "request" ->
            DownloadFailed /\ dlTmpFile' = FALSE
       [] currentDownload = "first" /\ dlPc = "streaming" /\ dlRequest = "first" ->
            dlPc' = "stuck" /\ UNCHANGED <<dlEvent, dlReturn, dlTmpFile>>
       [] OTHER -> UNCHANGED <<dlPc, dlEvent, dlReturn, dlTmpFile>>
  /\ UNCHANGED <<dlSrc, dlSize, dlActual, dlReceived, botExe, dlRequest>>
  /\ UNCHANGED <<builderVars, planVars, setupVars, runVars, ipcVars, xaVars, elevVars, snapVars>>

\* extractArchive (tar.extract of the .tar.gz) and unlinkSync settled; `exe` is the
\* entrypoint the archive left in the bot directory
Extract(ok, exe) ==
  /\ dlPc = "extract"
  /\ IF ok
     THEN /\ botExe' = exe
          /\ dlTmpFile' = FALSE
          /\ dlEvent' = DownloadProgress("verifying", Pct(90), 0)
          /\ dlPc' = "verify"
          /\ UNCHANGED dlReturn
     ELSE /\ DownloadFailed
          /\ exe = botExe
          /\ UNCHANGED <<botExe, dlTmpFile>>
  /\ UNCHANGED <<dlSrc, dlSize, dlActual, dlReceived>>
  /\ UNCHANGED <<dlRequest, currentDownload, dlCancelled>>
  /\ UNCHANGED <<builderVars, planVars, setupVars, runVars, ipcVars, xaVars, elevVars, snapVars>>

\* a verification that would look at nothing and change nothing
VerifiedUnchecked(exe) == exe

\* checkBotInstalled (access X_OK must succeed, else 'Bot verification failed' is
\* thrown) and then chmodSync(0o755): the entrypoint afterwards, or "throw"
Verified(exe) == IF exe = "exec" THEN "exec" ELSE "throw"

\* checkBotInstalled, chmodSync, the 'complete' event
Verify ==
  /\ dlPc = "verify"
  /\ IF Verified(botExe) # "throw"
     THEN /\ botExe' = Verified(botExe)
          /\ dlEvent' = DownloadProgress("complete", Pct(100), 0)
          /\ dlReturn' = "true"
          /\ dlPc' = "done"
     ELSE DownloadFailed /\ UNCHANGED botExe
  /\ UNCHANGED <<dlSrc, dlSize, dlActual, dlReceived, dlTmpFile>>
  /\ UNCHANGED <<dlRequest, currentDownload, dlCancelled>>
  /\ UNCHANGED <<builderVars, planVars, setupVars, runVars, ipcVars, xaVars, elevVars, snapVars>>

(***************************************************************************)
(* SystemSetup.checkAllRequirements                                        *)
(***************************************************************************)
RequirementNames ==
  <<"Operating System", "Node.js", "Claude Code CLI", "Claude Authentication">>

Statuses == {"checking", "found", "missing", "error", "skipped"}

Requirement(name, status) == [name |-> name, status |-> status, required |-> TRUE]

\* the requirements literal every run starts from
FreshRequirements == [j \in 1..4 |-> Requirement(RequirementNames[j], "checking")]

NoPlan == [items |-> <<>>, totalTime |-> "", requiresSudo |-> FALSE, canAutoInstall |-> FALSE]

NoEvent == [type |-> "none", success |-> FALSE, requirements |-> <<>>, error |-> ""]

Environments ==
  [os : BOOLEAN, node : {"absent", "old", "ok"}, claude : BOOLEAN, auth : BOOLEAN]

SetupIdle ==
  /\ env = [os |-> TRUE, node |-> "absent", claude |-> FALSE, auth |-> FALSE]
  /\ hanging = {}
  /\ setupPc = "idle"
  /\ requirements = <<>>
  /\ chk = [i |-> 0, at |-> "idle"]
  /\ inFlight = {}
  /\ authProbed = FALSE
  /\ lastSnapshot = <<>>
  /\ checked = <<>>
  /\ execReturn = "none"
  /\ setupEvent = NoEvent
  /\ installationAttempted = FALSE

StatusOf(reqs, name) ==
  LET found == {j \in DOMAIN reqs : reqs[j].name = name}
  IN IF found = {} THEN "undefined" ELSE reqs[CHOOSE j \in found : \A k \in found : j <= k].status

\* a loop that would leave the first requirement out
LoopStartSecond == 1 + 1

\* for (let i = 0; ...): the first index of the loop (requirements are numbered from 1)
LoopStart == 1

\* the status a probe that returned gives its requirement, per case of the switch
\*   getOSInfo().supported, checkNodeJS().found (v14+), checkClaudeCode().found,
\*   checkAuthentication().authenticated (claude --version, then a real request)
ProbeStatusStale(name, e) ==
  CASE name = "Operating System" -> IF e.os THEN "found" ELSE "error"
    [] name = "Node.js" -> IF e.node = "ok" THEN "found" ELSE "missing"
    [] name = "Claude Code CLI" -> IF e.claude THEN "found" ELSE "checking"
    [] name = "Claude Authentication" -> IF e.claude /\ e.auth THEN "found" ELSE "missing"

ProbeStatus(name, e) ==
  CASE name = "Operating System" -> IF e.os THEN "found" ELSE "error"
    [] name = "Node.js" -> IF e.node = "ok" THEN "found" ELSE "missing"
    [] name = "Claude Code CLI" -> IF e.claude THEN "found" ELSE "missing"
    [] name = "Claude Authentication" -> IF e.claude /\ e.auth THEN "found" ELSE "missing"

\* claudeReq?.status !== 'found' is false: the authentication probe may run
AuthGateOnNode(reqs) == StatusOf(reqs, "Node.js") = "found"

AuthGate(reqs) == StatusOf(reqs, "Claude Code CLI") = "found"

\* the probes whose external commands carry a timeout option:
\*   checkAuthentication: execAsync(..., { timeout: 5000 }), { timeout: 30000 }
\*   checkNodeJS, checkClaudeCode: execAsync('node --version'), execAsync('claude --version')
HasTimeout(name) == name = "Claude Authentication"

\* the status a probe whose command was killed at its timeout gives its requirement:
\*   checkAuthentication catches the rejection and returns authenticated: false
TimedOutStatus(name) == "missing"

\* an assignment that would reach every requirement of the array
SetStatusOfAll(reqs, j, st) == [k \in DOMAIN reqs |-> [reqs[k] EXCEPT !.status = st]]

\* req.status = ...: req is requirements[i], no other element is written
SetStatus(reqs, j, st) == [reqs EXCEPT ![j].status = st]

\* lines 73-97: a new requirements array, sent to the renderer before the loop
CheckBegin ==
  /\ requirements' = FreshRequirements
  /\ lastSnapshot' = FreshRequirements
  /\ chk' = [i |-> LoopStart, at |-> "top"]
  /\ inFlight' = {}
  /\ authProbed' = FALSE

\* ipcMain.handle('system-setup:check-requirements')
\* (SetupFlow starts it from its welcome step, where it holds no plan and no result)
CheckRequirements ==
  /\ setupPc = "idle"
  /\ setupPc' = "check"
  /\ CheckBegin
  /\ checked' = <<>>
  /\ execReturn' = "none"
  /\ setupEvent' = NoEvent
  /\ planInput' = <<>>
  /\ plan' = NoPlan
  /\ planPc' = "idle"
  /\ UNCHANGED <<env, hanging, installationAttempted>>
  /\ UNCHANGED <<builderVars, runVars, dlVars, ipcVars, xaVars, elevVars, snapVars>>

\* the loop body up to its await, for the three requirements probed unconditionally
StartProbe ==
  /\ chk.at = "top" /\ chk.i <= 4
  /\ requirements[chk.i].name # "Claude Authentication"
  /\ inFlight' = inFlight \cup {chk.i}
  /\ chk' = [chk EXCEPT !.at = "await"]
  /\ UNCHANGED <<requirements, authProbed, lastSnapshot>>
  /\ UNCHANGED <<env, hanging, setupPc, checked, execReturn, setupEvent, installationAttempted>>
  /\ UNCHANGED <<builderVars, planVars, runVars, dlVars, ipcVars, xaVars, elevVars, snapVars>>

\* case 'Claude Authentication' when the CLI was not found: skipped, snapshot sent
SkipAuth ==
  /\ chk.at = "top" /\ chk.i <= 4
  /\ requirements[chk.i].name = "Claude Authentication"
  /\ ~AuthGate(requirements)
  /\ requirements' = SetStatus(requirements, chk.i, "skipped")
  /\ lastSnapshot' = requirements'
  /\ chk' = [chk EXCEPT !.at = "delay"]
  /\ UNCHANGED <<inFlight, authProbed>>
  /\ UNCHANGED <<env, hanging, setupPc, checked, execReturn, setupEvent, installationAttempted>>
  /\ UNCHANGED <<builderVars, planVars, runVars, dlVars, ipcVars, xaVars, elevVars, snapVars>>

\* case 'Claude Authentication' when the CLI was found: an interim snapshot is sent
\* and checkAuthentication is awaited
StartAuthProbe ==
  /\ chk.at = "top" /\ chk.i <= 4
  /\ requirements[chk.i].name = "Claude Authentication"
  /\ AuthGate(requirements)
  /\ lastSnapshot' = requirements
  /\ authProbed' = TRUE
  /\ inFlight' = inFlight \cup {chk.i}
  /\ chk' = [chk EXCEPT !.at = "await"]
  /\ UNCHANGED requirements
  /\ UNCHANGED <<env, hanging, setupPc, checked, execReturn, setupEvent, installationAttempted>>
  /\ UNCHANGED <<builderVars, planVars, runVars, dlVars, ipcVars, xaVars, elevVars, snapVars>>

\* the awaited probe settles: its status is set (or 'error' in the catch block) and
\* the snapshot of line 149 is sent
ResolveProbe(throws) ==
  /\ chk.at = "await" /\ chk.i \in inFlight
  /\ requirements[chk.i].name \notin hanging
  /\ requirements' = SetStatus(requirements, chk.i,
       IF throws THEN "error" ELSE ProbeStatus(requirements[chk.i].name, env))
  /\ lastSnapshot' = requirements'
  /\ inFlight' = inFlight \ {chk.i}
  /\ chk' = [chk EXCEPT !.at = "delay"]
  /\ UNCHANGED authProbed
  /\ UNCHANGED <<env, hanging, setupPc, checked, execReturn, setupEvent, installationAttempted>>
  /\ UNCHANGED <<builderVars, planVars, runVars, dlVars, ipcVars, xaVars, elevVars, snapVars>>

\* the awaited probe's command never completes and is killed at its timeout
ProbeTimeout ==
  /\ chk.at = "await" /\ chk.i \in inFlight
  /\ requirements[chk.i].name \in hanging
  /\ HasTimeout(requirements[chk.i].name)
  /\ requirements' = SetStatus(requirements, chk.i, TimedOutStatus(requirements[chk.i].name))
  /\ lastSnapshot' = requirements'
  /\ inFlight' = inFlight \ {chk.i}
  /\ chk' = [chk EXCEPT !.at = "delay"]
  /\ UNCHANGED authProbed
  /\ UNCHANGED <<env, hanging, setupPc, checked, execReturn, setupEvent, installationAttempted>>
  /\ UNCHANGED <<builderVars, planVars, runVars, dlVars, ipcVars, xaVars, elevVars, snapVars>>

\* await new Promise(resolve => setTimeout(resolve, 500)); i++
Delay ==
  /\ chk.at = "delay"
  /\ chk' = [i |-> chk.i + 1, at |-> "top"]
  /\ UNCHANGED <<requirements, inFlight, authProbed, lastSnapshot>>
  /\ UNCHANGED <<env, hanging, setupPc, checked, execReturn, setupEvent, installationAttempted>>
  /\ UNCHANGED <<builderVars, planVars, runVars, dlVars, ipcVars, xaVars, elevVars, snapVars>>

\* return requirements, to the check-requirements handler
CheckReturn ==
  /\ setupPc = "check"
  /\ chk.at = "top" /\ chk.i > 4
  /\ chk' = [chk EXCEPT !.at = "done"]
  /\ checked' = requirements
  /\ setupPc' = "idle"
  /\ UNCHANGED <<requirements, inFlight, authProbed, lastSnapshot>>
  /\ UNCHANGED <<env, hanging, execReturn, setupEvent, installationAttempted>>
  /\ UNCHANGED <<builderVars, planVars, runVars, dlVars, ipcVars, xaVars, elevVars, snapVars>>

CheckStep ==
  \/ StartProbe
  \/ SkipAuth
  \/ StartAuthProbe
  \/ \E throws \in BOOLEAN : ResolveProbe(throws)
  \/ Delay

(***************************************************************************)
(* Properties of checkAllRequirements.                                     *)
(***************************************************************************)
Resolved == {"found", "missing", "error", "skipped"}

\* a run of checkAllRequirements is under way (begun, not yet returned)
CheckRunning == chk.at \in {"top", "await", "delay"}

\* C7: within one checkAll run every requirement starts as checking, changes status
\* exactly once, to found, missing, error or skipped, and never again; when checkAll
\* returns no requirement is still checking.
C7_OneShotStatus ==
  /\ [][(~CheckRunning /\ CheckRunning')
          => \A j \in 1..4 : requirements'[j].status = "checking"]_vars
  /\ [][(CheckRunning /\ requirements' # requirements)
          => \A j \in 1..4 :
               requirements'[j].status # requirements[j].status
                 => /\ requirements[j].status = "checking"
                    /\ requirements'[j].status \in Resolved]_vars
  /\ [](chk.at = "done" => \A j \in 1..4 : requirements[j].status \in Resolved)

C7_Witness ==
  /\ chk.at = "done"
  /\ requirements[1].status = "found"
  /\ requirements[2].status = "error"
  /\ requirements[3].status = "missing"
  /\ requirements[4].status = "skipped"

\* C8: Claude Authentication ends as skipped iff Claude Code CLI did not resolve to
\* found, and checkAuthentication is invoked only in runs where it resolved to found.
C8_AuthGated ==
  /\ chk.at = "done" =>
       (requirements[4].status = "skipped" <=> requirements[3].status # "found")
  /\ (CheckRunning \/ chk.at = "done") =>
       (authProbed => requirements[3].status = "found")

C8_Witness ==
  /\ chk.at = "done"
  /\ requirements[2].status = "found"
  /\ requirements[3].status = "missing"
  /\ requirements[4].status = "skipped"
  /\ ~authProbed

\* the requirements of a snapshot that are no longer checking form a prefix
PrefixResolved(snap) ==
  \A j \in DOMAIN snap : \A k \in DOMAIN snap :
    (j < k /\ snap[k].status # "checking") => snap[j].status # "checking"

\* C9: probes run in declaration order and never concurrently: at most one probe is
\* in flight, and in every emitted snapshot the requirements no longer checking form
\* a prefix of the declared order.
C9_SequentialProbes ==
  /\ Cardinality(inFlight) <= 1
  /\ \A j \in inFlight : j = chk.i /\ \A k \in 1..(j - 1) : requirements[k].status # "checking"
  /\ PrefixResolved(lastSnapshot)
  /\ [j \in DOMAIN lastSnapshot |-> lastSnapshot[j].name] \in {<<>>, RequirementNames}

C9_Witness ==
  /\ inFlight = {3}
  /\ lastSnapshot # <<>>
  /\ lastSnapshot[2].status = "missing"
  /\ lastSnapshot[3].status = "checking"

(***************************************************************************)
(* SystemSetup.createInstallationPlan                                      *)
(***************************************************************************)
NodeItem ==
  [name |-> "Node.js", method |-> "apt", size |-> "~15MB",
   estimatedTime |-> "2-3 minutes",
   description |-> "JavaScript runtime required for Claude Code CLI"]

ClaudeItem ==
  [name |-> "Claude Code CLI", method |-> "npm", size |-> "~5MB",
   estimatedTime |-> "1-2 minutes",
   description |-> "Anthropic's command-line interface for Claude"]

\* a switch without the case of the CLI
ItemsForNodeOnly(req) ==
  CASE req.name = "Node.js" -> <<NodeItem>>
    [] OTHER -> <<>>

\* the switch (req.name) of the loop body: the items one requirement pushes
ItemsFor(req) ==
  CASE req.name = "Node.js" -> <<NodeItem>>
    [] req.name = "Claude Code CLI" -> <<ClaudeItem>>
    [] OTHER -> <<>>

\* the minutes one requirement adds to totalTimeMinutes
MinutesFor(req) ==
  CASE req.name = "Node.js" -> 3
    [] req.name = "Claude Code CLI" -> 2
    [] OTHER -> 0

\* whether one requirement sets requiresSudo
SudoFor(req) == req.name = "Node.js"

\* missingRequirements.filter(r => r.status === 'missing')
MissingOf(reqs) == FilterSeq(reqs, {r \in Range(reqs) : r.status = "missing"})

RECURSIVE SumMinutes(_)
SumMinutes(reqs) ==
  IF reqs = <<>> THEN 0 ELSE MinutesFor(Head(reqs)) + SumMinutes(Tail(reqs))

CreateInstallationPlanOf(missingRequirements) ==
  LET reqs == MissingOf(missingRequirements)
      items == Flatten([i \in 1..Len(reqs) |-> ItemsFor(reqs[i])])
      totalTimeMinutes == SumMinutes(reqs)
  IN [items |-> items,
      totalTime |-> ToString(totalTimeMinutes) \o "-" \o ToString(totalTimeMinutes + 2)
                      \o " minutes",
      requiresSudo |-> \E i \in 1..Len(reqs) : SudoFor(reqs[i]),
      canAutoInstall |-> Len(items) > 0]

PlanIdle ==
  /\ planInput = <<>>
  /\ plan = NoPlan
  /\ planPc = "idle"

\* every requirement list of at most MaxMissing entries the handler can be sent
RequirementLists ==
  UNION {[1..n -> {Requirement(RequirementNames[j], st) : j \in 1..4, st \in Statuses}]
           : n \in 0..MaxMissing}

PlanInit ==
  /\ BuilderIdle
  /\ SetupIdle
  /\ RunIdle
  /\ DownloadIdle
  /\ IpcIdle
  /\ ExtractIdle
  /\ ElevationIdle
  /\ SnapshotIdle
  /\ planInput \in RequirementLists
  /\ plan = NoPlan
  /\ planPc = "idle"

\* ipcMain.handle('system-setup:get-installation-plan')
CreateInstallationPlan ==
  /\ planPc = "idle"
  /\ plan' = CreateInstallationPlanOf(planInput)
  /\ planPc' = "done"
  /\ UNCHANGED <<planInput, builderVars, setupVars, runVars, dlVars, ipcVars, xaVars, elevVars, snapVars>>

PlanNext == CreateInstallationPlan

SpecPlan == PlanInit /\ [][PlanNext]_vars

\* the names of the listed requirements that have an install mapping, in input order
MappedNames(reqs) ==
  LET names == [i \in 1..Len(reqs) |-> reqs[i].name]
  IN FilterSeq(names, {"Node.js", "Claude Code CLI"})

ItemNames(p) == [i \in 1..Len(p.items) |-> p.items[i].name]

AllMissing(reqs) == \A i \in 1..Len(reqs) : reqs[i].status = "missing"

\* C10: for a list of missing requirements the plan holds exactly one item per listed
\* requirement with a known install mapping (Node.js, Claude Code CLI), in input
\* order, and no item for a requirement without a mapping.
C10_PlanItems ==
  (planPc = "done" /\ AllMissing(planInput)) =>
    /\ ItemNames(plan) = MappedNames(planInput)
    /\ \A i \in 1..Len(plan.items) : plan.items[i] \in {NodeItem, ClaudeItem}

C10_Witness ==
  /\ planPc = "done"
  /\ AllMissing(planInput)
  /\ Len(planInput) = 3
  /\ planInput[1].name = "Claude Authentication"
  /\ planInput[2].name = "Claude Code CLI"
  /\ planInput[3].name = "Node.js"
  /\ ItemNames(plan) = <<"Claude Code CLI", "Node.js">>

\* installing this item runs a command under the elevation mechanism: some command
\* installAllDependencies adds for it has requiresSudo = true
NeedsElevation(item) ==
  \E i \in DOMAIN InstallAllCommands({item.name}) :
    InstallAllCommands({item.name})[i].requiresSudo

\* C11: in every plan returned by createInstallationPlan, requiresSudo is true iff at
\* least one item's install method needs elevated installation, and canAutoInstall is
\* true iff items is non-empty.
C11_PlanFlags ==
  planPc = "done" =>
    /\ plan.requiresSudo <=> \E i \in DOMAIN plan.items : NeedsElevation(plan.items[i])
    /\ plan.canAutoInstall <=> plan.items # <<>>

(***************************************************************************)
(* The builder as a state machine: addCommand and buildScript.             *)
(***************************************************************************)
\* addCommand(command, description, requiresSudo): the i-th added command is named by i
AddCommand(requiresSudo) ==
  /\ Len(commands) < MaxCommands
  /\ commands' = Append(commands,
       InstallCommand("command-" \o ToString(Len(commands) + 1),
                      "step-" \o ToString(Len(commands) + 1), requiresSudo))
  /\ UNCHANGED <<script, built, planVars, setupVars, runVars, dlVars, ipcVars, xaVars, elevVars, snapVars>>

BuildScript ==
  /\ script' = BuildScriptOf(commands)
  /\ built' = Len(commands)
  /\ UNCHANGED <<commands, planVars, setupVars, runVars, dlVars, ipcVars, xaVars, elevVars, snapVars>>

BuilderNext ==
  \/ \E requiresSudo \in BOOLEAN : AddCommand(requiresSudo)
  \/ BuildScript

BuilderInit ==
  /\ BuilderIdle /\ PlanIdle /\ SetupIdle /\ RunIdle /\ DownloadIdle /\ IpcIdle
  /\ ExtractIdle /\ ElevationIdle /\ SnapshotIdle

SpecBuilder == BuilderInit /\ [][BuilderNext]_vars

\* C1: the script returned by buildScript invokes the elevation mechanism exactly
\* min(N,1) times, N the number of commands added with requiresSudo = true.
C1_SingleElevation ==
  built >= 0 => Elevations(script) = Min(NumSudo(SubSeq(commands, 1, built)), 1)

C1_Witness ==
  /\ built >= 5
  /\ NumSudo(SubSeq(commands, 1, built)) >= 5
  /\ Elevations(script) = 1

(***************************************************************************)
(* The setup flow: the renderer checks, asks for a plan, starts the        *)
(* installation.                                                           *)
(***************************************************************************)
\* SetupFlow.handleStartSetup: the plan is asked for the requirements found missing
GetInstallationPlan ==
  /\ setupPc = "idle"
  /\ checked # <<>>
  /\ MissingOf(checked) # <<>>
  /\ planPc = "idle"
  /\ planInput' = MissingOf(checked)
  /\ plan' = CreateInstallationPlanOf(planInput')
  /\ planPc' = "done"
  /\ checked' = <<>>
  /\ UNCHANGED <<env, hanging, setupPc, checkVars, execReturn, setupEvent, installationAttempted>>
  /\ UNCHANGED <<builderVars, runVars, dlVars, ipcVars, xaVars, elevVars, snapVars>>

(***************************************************************************)
(* SystemSetup.executeInstallationPlan                                     *)
(***************************************************************************)
\* finalCheck.every(req => found || skipped || !req.required)
AllInstalledLenient(reqs) ==
  \A j \in DOMAIN reqs :
    reqs[j].status \in {"found", "skipped", "missing"} \/ ~reqs[j].required

AllInstalled(reqs) ==
  \A j \in DOMAIN reqs : reqs[j].status \in {"found", "skipped"} \/ ~reqs[j].required

\* ipcMain.handle('system-setup:start-installation'): the observer is registered and
\* installAllDependencies is called with the names of the plan's items
\* (InstallationPlanView enables the button only for a plan with canAutoInstall)
StartInstallation ==
  /\ setupPc = "idle"
  /\ planPc = "done"
  /\ plan.canAutoInstall
  /\ setupPc' = "exec-install"
  /\ planPc' = "started"
  /\ onProgressCallback' = TRUE
  /\ InstallAllBegin(Range(ItemNames(plan)))
  /\ UNCHANGED <<planInput, plan>>
  /\ UNCHANGED <<env, hanging, checkVars, checked, execReturn, setupEvent, installationAttempted>>
  /\ UNCHANGED <<dlVars, ipcVars, xaVars, elevVars, snapVars>>

\* installAllDependencies resolved: installationAttempted, then the final check begins
ExecVerify ==
  /\ setupPc = "exec-install"
  /\ instPromise = "resolved"
  /\ installationAttempted' = TRUE
  /\ CheckBegin
  /\ setupPc' = "exec-check"
  /\ UNCHANGED <<env, hanging, checked, execReturn, setupEvent>>
  /\ UNCHANGED <<builderVars, planVars, runVars, dlVars, ipcVars, xaVars, elevVars, snapVars>>

\* installAllDependencies rejected: the catch block
ExecFail ==
  /\ setupPc = "exec-install"
  /\ instPromise = "rejected"
  /\ setupEvent' = [type |-> "installation-error", success |-> FALSE,
                    requirements |-> <<>>, error |-> instError]
  /\ execReturn' = "false"
  /\ setupPc' = "idle"
  /\ UNCHANGED <<env, hanging, checkVars, checked, installationAttempted>>
  /\ UNCHANGED <<builderVars, planVars, runVars, dlVars, ipcVars, xaVars, elevVars, snapVars>>

\* the final check returned: allInstalled is computed, sent and returned
ExecComplete ==
  /\ setupPc = "exec-check"
  /\ chk.at = "top" /\ chk.i > 4
  /\ chk' = [chk EXCEPT !.at = "done"]
  /\ setupEvent' = [type |-> "installation-complete",
                    success |-> AllInstalled(requirements),
                    requirements |-> requirements, error |-> ""]
  /\ execReturn' = IF AllInstalled(requirements) THEN "true" ELSE "false"
  /\ setupPc' = "idle"
  /\ UNCHANGED <<requirements, inFlight, authProbed, lastSnapshot>>
  /\ UNCHANGED <<env, hanging, checked, installationAttempted>>
  /\ UNCHANGED <<builderVars, planVars, runVars, dlVars, ipcVars, xaVars, elevVars, snapVars>>

\* at most this many stdout lines arrive in one 'data' event
MaxChunk == 4

Init ==
  /\ BuilderIdle
  /\ PlanIdle
  /\ RunIdle
  /\ DownloadIdle
  /\ IpcIdle
  /\ ExtractIdle
  /\ ElevationIdle
  /\ SnapshotIdle
  /\ env \in Environments
  /\ hanging = {}
  /\ setupPc = "idle"
  /\ requirements = <<>>
  /\ chk = [i |-> 0, at |-> "idle"]
  /\ inFlight = {}
  /\ authProbed = FALSE
  /\ lastSnapshot = <<>>
  /\ checked = <<>>
  /\ execReturn = "none"
  /\ setupEvent = NoEvent
  /\ installationAttempted = FALSE

Next ==
  \/ CheckRequirements
  \/ CheckStep
  \/ CheckReturn
  \/ GetInstallationPlan
  \/ StartInstallation
  \/ InstallAllRun
  \/ ScriptStep
  \/ \E n \in 1..MaxChunk : StdoutData(n)
  \/ \E n \in 1..MaxChunk : StderrData(n)
  \/ ChildClose
  \/ ChildError
  \/ InstallAllSettle
  \/ ExecVerify
  \/ ExecFail
  \/ ExecComplete

Spec == Init /\ [][Next]_vars

(***************************************************************************)
(* A caller of installNodeJS, with an observer registered.                 *)
(***************************************************************************)
NodeJSInit ==
  /\ BuilderIdle
  /\ PlanIdle
  /\ SetupIdle
  /\ DownloadIdle
  /\ IpcIdle
  /\ ExtractIdle
  /\ ElevationIdle
  /\ SnapshotIdle
  /\ instPc = "idle"
  /\ missingDeps = {}
  /\ scriptFiles = 0
  /\ sh = NoChild
  /\ sudoScript = FALSE
  /\ outBuf = <<>>
  /\ logOutput = <<>>
  /\ currentProgress = NoProgress
  /\ onProgressCallback = TRUE
  /\ percents = <<>>
  /\ scriptPromise = "none"
  /\ instPromise = "none"
  /\ instError = ""
  /\ spawns = 0
  /\ stderr = <<>>

NodeJSNext ==
  \/ InstallNodeJS
  \/ AptRun
  \/ AptDone
  \/ AptFailed
  \/ NodeSourceRun
  \/ NodeSourceDone
  \/ NodeSourceFailed
  \/ \E ok \in BOOLEAN : PortableDownload(ok)
  \/ \E ok \in BOOLEAN : PortableExtract(ok)
  \/ ScriptStep
  \/ \E n \in 1..MaxChunk : StdoutData(n)
  \/ \E n \in 1..MaxChunk : StderrData(n)
  \/ ChildClose
  \/ ChildError

SpecNodeJS == NodeJSInit /\ [][NodeJSNext]_vars

(***************************************************************************)
(* Properties of the installation run.                                     *)
(***************************************************************************)
\* C2: executeInstallationPlan returns true (installation-complete with success) only
\* if every required requirement is found in the final re-check snapshot.
C2_NoPartialSuccess ==
  /\ execReturn = "true" <=>
       (setupEvent.type = "installation-complete" /\ setupEvent.success)
  /\ execReturn = "true" =>
       /\ Len(setupEvent.requirements) = 4
       /\ \A j \in 1..4 : setupEvent.requirements[j].required
                            => setupEvent.requirements[j].status = "found"

C2_Witness ==
  /\ execReturn = "true"
  /\ sh.st = "closed" /\ sh.code = 0
  /\ \A j \in 1..4 : setupEvent.requirements[j].status = "found"

\* a post-install version probe of a dependency named in missingDeps fails
SomeProbeFails ==
  \/ "Node.js" \in missingDeps /\ env.node = "absent"
  \/ "Claude Code CLI" \in missingDeps /\ ~env.claude

\* C3: when the script exited zero but the post-install probe of a dependency named
\* in missingDeps fails, installAllDependencies rejects, and the run is not a success.
C3_VerificationDecides ==
  (instPc = "idle" /\ sh.st = "closed" /\ sh.code = 0 /\ SomeProbeFails)
    => /\ instPromise = "rejected"
       /\ execReturn \in {"none", "false"}

C3_Witness ==
  /\ instPc = "idle" /\ sh.st = "closed" /\ sh.code = 0
  /\ missingDeps = {"Node.js", "Claude Code CLI"}
  /\ env.node = "ok" /\ ~env.claude
  /\ instPromise = "rejected"
  /\ execReturn = "false"

\* C4: within one installation run the percents of the delivered ProgressEvents are
\* non-decreasing.
C4_MonotonicPercent ==
  \A i \in 1..(Len(percents) - 1) : percents[i] <= percents[i + 1]

(***************************************************************************)
(* The bundle download.                                                    *)
(***************************************************************************)
\* sizes are counted in blocks; at most this many per bundle
MaxSize == 3

DownloadInit ==
  /\ BuilderIdle
  /\ PlanIdle
  /\ SetupIdle
  /\ RunIdle
  /\ DownloadIdle
  /\ IpcIdle
  /\ ExtractIdle
  /\ ElevationIdle
  /\ SnapshotIdle

DownloadNext ==
  \/ DownloadBot
  \/ \E src \in {"local", "remote"}, size \in 1..MaxSize, actual \in 0..(MaxSize + 1),
        mkdirOk \in BOOLEAN : ReleaseResolved(src, size, actual, mkdirOk)
  \/ \E answer \in {"ok", "redirect", "no-location", "status", "error"} : Response(answer)
  \/ \E ok \in BOOLEAN : RedirectResponse(ok)
  \/ \E n \in 1..(MaxSize + 1) : DownloadData(n)
  \/ DownloadFinish
  \/ DownloadStreamError
  \/ FirstRequestError
  \/ Cleanup
  \/ \E ok \in BOOLEAN, exe \in {"absent", "noexec", "exec"} : Extract(ok, exe)
  \/ Verify

SpecDownload == DownloadInit /\ [][DownloadNext]_vars

Stages == <<"checking", "downloading", "extracting", "verifying", "complete">>

StageRank(stage) == CHOOSE r \in 1..5 : Stages[r] = stage

\* a downloadBot run is under way
Downloading == dlPc \notin {"idle", "done"}

C6_MonotonicDownloadPercent ==
  [][Downloading => dlEvent'.progress >= dlEvent.progress]_vars

(***************************************************************************)
(* Properties of one installAllDependencies call.                          *)
(***************************************************************************)
\* an installAllDependencies call is between its start and its settling
InstallAllRunning == instPc \in {"all-save", "all-script"}

\* C12: one call of installAllDependencies spawns the combined script exactly once,
\* whether the script succeeds or fails; a failed run is not spawned again, and the
\* script it spawns holds at most one elevation.
C12_SingleSpawn ==
  /\ spawns <= 1
  /\ instPc = "all-save" => spawns = 0
  /\ (instPc = "all-script" \/ instPromise \in {"resolved", "rejected"}) =>
       /\ spawns = 1
       /\ Elevations(script) <= 1

C12_Witness ==
  /\ instPc = "idle"
  /\ instPromise = "rejected"
  /\ sh.st = "closed" /\ sh.code = 126
  /\ execReturn = "false"
  /\ spawns = 1

C14_SubScriptRemoved ==
  sh.st \in {"exited", "closed"} => ~sudoScript

\* everything the child wrote to its standard error
WrittenToStderr == [i \in DOMAIN sh.err |-> sh.err[i].txt]

\* the script of the current installAllDependencies call exited non-zero
ScriptFailed == sh.st = "closed" /\ sh.code # 0 /\ instPc \in {"all-script", "idle"}

Admitted(runs, r) == runs[r] \in {"idle", "returned"}

\* 'system-setup:start-installation': executeInstallationPlan registers the observer
\* and installAllDependencies runs up to saveToFile
HandleStartInstallation(r) ==
  /\ Admitted(installRuns, r)
  /\ installRuns' = [installRuns EXCEPT ![r] = "save"]
  /\ UNCHANGED <<downloadRuns, builderVars, planVars, setupVars, runVars, dlVars, xaVars, elevVars, snapVars>>

\* saveToFile resolved: runInstallScript spawns bash
RunSpawn(r) ==
  /\ installRuns[r] = "save"
  /\ installRuns' = [installRuns EXCEPT ![r] = "script"]
  /\ UNCHANGED <<downloadRuns, builderVars, planVars, setupVars, runVars, dlVars, xaVars, elevVars, snapVars>>

\* the child closed: on exit 0 the verification probes run, otherwise the catch block
\* of executeInstallationPlan returns false
RunClose(r, ok) ==
  /\ installRuns[r] = "script"
  /\ installRuns' = [installRuns EXCEPT ![r] = IF ok THEN "verify" ELSE "returned"]
  /\ UNCHANGED <<downloadRuns, builderVars, planVars, setupVars, runVars, dlVars, xaVars, elevVars, snapVars>>

\* the verification probes settled: the final checkAllRequirements, or the catch block
RunVerified(r, ok) ==
  /\ installRuns[r] = "verify"
  /\ installRuns' = [installRuns EXCEPT ![r] = IF ok THEN "check" ELSE "returned"]
  /\ UNCHANGED <<downloadRuns, builderVars, planVars, setupVars, runVars, dlVars, xaVars, elevVars, snapVars>>

\* the final check returned: installation-complete is sent
RunChecked(r) ==
  /\ installRuns[r] = "check"
  /\ installRuns' = [installRuns EXCEPT ![r] = "returned"]
  /\ UNCHANGED <<downloadRuns, builderVars, planVars, setupVars, runVars, dlVars, xaVars, elevVars, snapVars>>

\* 'bot:download': downloadBot sends 'checking' and awaits getLatestRelease
HandleBotDownload(r) ==
  /\ Admitted(downloadRuns, r)
  /\ downloadRuns' = [downloadRuns EXCEPT ![r] = "release"]
  /\ UNCHANGED <<installRuns, builderVars, planVars, setupVars, runVars, dlVars, xaVars, elevVars, snapVars>>

\* release and directory are there: downloadFile opens a write stream on
\* os.tmpdir()/toji-bot-download.tar.gz, or the catch block returns false
TransferOpen(r, ok) ==
  /\ downloadRuns[r] = "release"
  /\ downloadRuns' = [downloadRuns EXCEPT ![r] = IF ok THEN "transfer" ELSE "returned"]
  /\ UNCHANGED <<installRuns, builderVars, planVars, setupVars, runVars, dlVars, xaVars, elevVars, snapVars>>

\* downloadFile settled
TransferEnd(r, ok) ==
  /\ downloadRuns[r] = "transfer"
  /\ downloadRuns' = [downloadRuns EXCEPT ![r] = IF ok THEN "extract" ELSE "returned"]
  /\ UNCHANGED <<installRuns, builderVars, planVars, setupVars, runVars, dlVars, xaVars, elevVars, snapVars>>

\* extractArchive and unlink settled
ExtractEnd(r, ok) ==
  /\ downloadRuns[r] = "extract"
  /\ downloadRuns' = [downloadRuns EXCEPT ![r] = IF ok THEN "verify" ELSE "returned"]
  /\ UNCHANGED <<installRuns, builderVars, planVars, setupVars, runVars, dlVars, xaVars, elevVars, snapVars>>

\* checkBotInstalled settled: 'complete' or 'error', and downloadBot returns
VerifyEnd(r) ==
  /\ downloadRuns[r] = "verify"
  /\ downloadRuns' = [downloadRuns EXCEPT ![r] = "returned"]
  /\ UNCHANGED <<installRuns, builderVars, planVars, setupVars, runVars, dlVars, xaVars, elevVars, snapVars>>

IpcInit ==
  /\ BuilderIdle
  /\ PlanIdle
  /\ SetupIdle
  /\ RunIdle
  /\ DownloadIdle
  /\ IpcIdle
  /\ ExtractIdle
  /\ ElevationIdle
  /\ SnapshotIdle

IpcNext ==
  \E r \in Requests :
    \/ HandleStartInstallation(r)
    \/ RunSpawn(r)
    \/ \E ok \in BOOLEAN : RunClose(r, ok)
    \/ \E ok \in BOOLEAN : RunVerified(r, ok)
    \/ RunChecked(r)
    \/ HandleBotDownload(r)
    \/ \E ok \in BOOLEAN : TransferOpen(r, ok)
    \/ \E ok \in BOOLEAN : TransferEnd(r, ok)
    \/ \E ok \in BOOLEAN : ExtractEnd(r, ok)
    \/ VerifyEnd(r)

SpecIpc == IpcInit /\ [][IpcNext]_vars

\* C16: at most one installation-script execution is in flight: a start-installation
\* request arriving during a run does not start a second script child in parallel.
C16_OneInstallAtATime ==
  Cardinality({r \in Requests : installRuns[r] = "script"}) <= 1

\* C17: at most one bundle download is in flight: a bot:download request arriving
\* before a run reached a terminal stage does not start a second transfer writing to
\* the same temporary download file.
C17_OneDownloadAtATime ==
  Cardinality({r \in Requests : downloadRuns[r] = "transfer"}) <= 1

(***************************************************************************)
(* Properties of installNodeJS.                                            *)
(***************************************************************************)
\* installNodeJS resolves at this step
Succeeds == instPc' = "idle" /\ instPromise' = "resolved"

\* installNodeJS rejects at this step with the given error
FailsWith(error) == instPc' = "idle" /\ instPromise' = "rejected" /\ instError' = error

\* C18: installNodeJS tries apt, NodeSource, portable in this order; a strategy is
\* attempted only if every earlier one failed; the call succeeds as soon as one
\* strategy succeeds; if all fail it fails with the error of the last one attempted.
C18_FallbackOrder ==
  [][instPc' # instPc =>
       CASE instPc = "idle" -> instPc' = "apt-save" /\ spawns' = 0
         [] instPc = "apt-save" -> instPc' = "apt-script" /\ spawns' = 1
         [] instPc = "apt-script" ->
              \/ scriptPromise = "resolved" /\ Succeeds
              \/ scriptPromise = "rejected" /\ instPc' = "ns-save" /\ instPromise' = "pending"
         [] instPc = "ns-save" -> instPc' = "ns-script" /\ spawns' = 2
         [] instPc = "ns-script" ->
              \/ scriptPromise = "resolved" /\ Succeeds
              \/ /\ scriptPromise = "rejected" /\ instPc' = "portable-download"
                 /\ instPromise' = "pending"
         [] instPc = "portable-download" ->
              \/ instPc' = "portable-extract" /\ instPromise' = "pending"
              \/ FailsWith("download failed")
         [] instPc = "portable-extract" -> Succeeds \/ FailsWith("extract failed")
         [] OTHER -> FALSE]_vars

C18_Witness ==
  /\ instPc = "idle"
  /\ instPromise = "rejected"
  /\ instError = "extract failed"
  /\ spawns = 2
  /\ sh.st = "closed" /\ sh.code # 0

\* C19: a downloadBot run in which a stage throws ends with stage = error and leaves
\* no temporary download file behind, whichever stage failed.
C19_NoTemporaryFileAfterError ==
  (dlPc = "done" /\ dlReturn = "false") =>
    /\ dlEvent.stage = "error"
    /\ ~dlTmpFile

(***************************************************************************)
(* BotDownloader.extractArchive, called on its own.                        *)
(***************************************************************************)
\* a file name has at most this many parts between dots
MaxParts == 3

NameParts == {"bot", "tar", "gz", "zip"}

ArchiveNames == UNION {[1..n -> NameParts] : n \in 1..MaxParts}

\* path.extname: from the last dot of the name, '' when the name has none
ExtName(name) == IF Len(name) >= 2 THEN "." \o name[Len(name)] ELSE ""

\* extractArchive: tar.extract for '.gz' and '.tar', which either extracts the
\* entrypoint or throws after writing nothing or part of the tree; an error otherwise
ExtractArchive ==
  /\ extractResult = "none"
  /\ LET extension == ExtName(archivePath)
     IN IF extension = ".gz" \/ extension = ".tar"
        THEN \/ extractResult' = "resolved" /\ written' = {"toji-bot"}
             \/ extractResult' = "tar error" /\ written' \in {{}, {"partial"}}
        ELSE IF extension = ".zip"
        THEN extractResult' = "ZIP extraction not yet implemented" /\ written' = {}
        ELSE /\ extractResult' = "Unsupported archive format: " \o extension
             /\ written' = {}
  /\ UNCHANGED archivePath
  /\ UNCHANGED <<builderVars, planVars, setupVars, runVars, dlVars, ipcVars, elevVars, snapVars>>

ExtractInit ==
  /\ BuilderIdle
  /\ PlanIdle
  /\ SetupIdle
  /\ RunIdle
  /\ DownloadIdle
  /\ IpcIdle
  /\ archivePath \in ArchiveNames
  /\ written = {}
  /\ extractResult = "none"
  /\ ElevationIdle
  /\ SnapshotIdle

ExtractNext == ExtractArchive

SpecExtract == ExtractInit /\ [][ExtractNext]_vars

\* the errors that say the format is not supported
UnsupportedFormatErrors ==
  {"ZIP extraction not yet implemented"} \cup
  {"Unsupported archive format: " \o e : e \in {""} \cup {"." \o q : q \in NameParts}}

\* C20: extractArchive called with an archive whose extension is not that of a
\* .tar.gz archive fails with an explicit unsupported-format error before anything is
\* written to the destination directory.
C20_OnlyTarGz ==
  (extractResult # "none" /\ ExtName(archivePath) # ".gz") =>
    /\ extractResult \in UnsupportedFormatErrors
    /\ written = {}

(***************************************************************************)
(* Properties of the verification stage of downloadBot.                    *)
(***************************************************************************)
\* C21: downloadBot emits stage = complete and returns true only if the entrypoint
\* file exists in the destination directory and is executable at that moment.
C21_CompleteOnlyIfExecutable ==
  /\ dlEvent.stage = "complete" => botExe = "exec"
  /\ dlReturn = "true" => (dlEvent.stage = "complete" /\ botExe = "exec")

C21_Witness ==
  /\ dlPc = "done"
  /\ dlEvent.stage = "complete"
  /\ dlReturn = "true"
  /\ botExe = "exec"
  /\ dlSrc = "remote"

\* C22: when the extracted entrypoint exists without the executable bit, the
\* verification stage sets the bit and the run ends with stage = complete.
C22_ExecutableBitSet ==
  [][(dlPc = "verify" /\ botExe = "noexec" /\ dlPc' # dlPc) =>
       (dlEvent'.stage = "complete" /\ botExe' = "exec")]_vars

(***************************************************************************)
(* Privilege elevation: LinuxPlatformService.checkSystemCapabilities,      *)
(* runElevatedCommand, and the elevation line of an installAllDependencies *)
(* script                                                                  *)
(***************************************************************************)
\* the machines: every combination of `which apt`, `which pkexec`, `which sudo`
Machines == [apt : BOOLEAN, pkexec : BOOLEAN, sudo : BOOLEAN]

\* the commands handed to runElevatedCommand
ElevatedCommands == {"apt-get update", "apt-get install -y nodejs npm"}

\* the missingDeps arrays handed to installAllDependencies
DependencySets == SUBSET {"Node.js", "Claude Code CLI"}

\* the capabilities object of line 78, before any probe
NoCapabilities ==
  [hasPackageManager |-> FALSE, hasPrivilegeEscalation |-> FALSE,
   elevationMethod |-> "undefined", canInstallSystemPackages |-> FALSE]

\* a prober that would try sudo before pkexec
CheckSystemCapabilitiesSudoFirst(t) ==
  LET apt == IF t.apt THEN [NoCapabilities EXCEPT !.hasPackageManager = TRUE]
             ELSE NoCapabilities
      esc == IF t.sudo
             THEN [apt EXCEPT !.hasPrivilegeEscalation = TRUE, !.elevationMethod = "sudo"]
             ELSE IF t.pkexec
                  THEN [apt EXCEPT !.hasPrivilegeEscalation = TRUE, !.elevationMethod = "pkexec"]
                  ELSE apt
  IN [esc EXCEPT !.canInstallSystemPackages =
                    esc.hasPackageManager /\ esc.hasPrivilegeEscalation]

\* checkSystemCapabilities on a machine t, each failing `which` caught in turn:
\* `which apt`; `which pkexec`, and in its catch `which sudo`; then the conjunction
CheckSystemCapabilities(t) ==
  LET apt == IF t.apt THEN [NoCapabilities EXCEPT !.hasPackageManager = TRUE]
             ELSE NoCapabilities
      esc == IF t.pkexec
             THEN [apt EXCEPT !.hasPrivilegeEscalation = TRUE, !.elevationMethod = "pkexec"]
             ELSE IF t.sudo
                  THEN [apt EXCEPT !.hasPrivilegeEscalation = TRUE, !.elevationMethod = "sudo"]
                  ELSE apt
  IN [esc EXCEPT !.canInstallSystemPackages =
                    esc.hasPackageManager /\ esc.hasPrivilegeEscalation]

\* capabilities.elevationMethod === 'pkexec' ? `pkexec ${command}` : `sudo ${command}`
ElevatedMechanism(caps) == IF caps.elevationMethod = "pkexec" THEN "pkexec" ELSE "sudo"

\* the programs a script invokes to elevate, in the order of its lines
ScriptMechanisms(s) == [i \in 1..Elevations(s) |-> "pkexec"]

NoEscalationMessage == "No privilege escalation method available (pkexec or sudo required)"

\* what bash reports when the program of a line is not installed (exit code 127)
CommandNotFound(mechanism) ==
  "Installation failed with code 127: " \o mechanism \o ": command not found"

\* runElevatedCommand(command, description), up to its first await
RunElevatedCommand(command) ==
  /\ elevCall.pc = "idle"
  /\ elevCall' = [op |-> "runElevatedCommand", pc |-> "probing", arg |-> command, deps |-> {}]
  /\ invoked' = <<>>
  /\ elevError' = ""
  /\ UNCHANGED <<tools, capabilities>>
  /\ UNCHANGED <<builderVars, planVars, setupVars, runVars, dlVars, ipcVars, xaVars, snapVars>>

\* runElevatedCommand after checkSystemCapabilities resolved: throw, or runCommand
ElevatedProbed ==
  /\ elevCall.op = "runElevatedCommand"
  /\ elevCall.pc = "probing"
  /\ capabilities' = CheckSystemCapabilities(tools)
  /\ IF ~capabilities'.hasPrivilegeEscalation
     THEN /\ elevError' = NoEscalationMessage
          /\ elevCall' = [elevCall EXCEPT !.pc = "settled"]
          /\ UNCHANGED invoked
     ELSE /\ invoked' = Append(invoked, ElevatedMechanism(capabilities'))
          /\ elevCall' = [elevCall EXCEPT !.pc = "running"]
          /\ UNCHANGED elevError
  /\ UNCHANGED tools
  /\ UNCHANGED <<builderVars, planVars, setupVars, runVars, dlVars, ipcVars, xaVars, snapVars>>

\* installAllDependencies(missingDeps), up to the spawn of its script: no capability is probed
InstallAllElevated(deps) ==
  /\ elevCall.pc = "idle"
  /\ elevCall' = [op |-> "installAllDependencies", pc |-> "script", arg |-> "", deps |-> deps]
  /\ invoked' = <<>>
  /\ elevError' = ""
  /\ UNCHANGED <<tools, capabilities>>
  /\ UNCHANGED <<builderVars, planVars, setupVars, runVars, dlVars, ipcVars, xaVars, snapVars>>

\* the script reaches its elevation line, or its end when it has none
ScriptElevates ==
  /\ elevCall.op = "installAllDependencies"
  /\ elevCall.pc = "script"
  /\ LET mechanisms == ScriptMechanisms(BuildScriptOf(InstallAllCommands(elevCall.deps)))
     IN  IF mechanisms = <<>>
         THEN /\ elevCall' = [elevCall EXCEPT !.pc = "settled"]
              /\ UNCHANGED <<invoked, elevError>>
         ELSE /\ invoked' = Append(invoked, mechanisms[1])
              /\ IF tools[mechanisms[1]]
                 THEN /\ elevCall' = [elevCall EXCEPT !.pc = "running"]
                      /\ UNCHANGED elevError
                 ELSE /\ elevCall' = [elevCall EXCEPT !.pc = "settled"]
                      /\ elevError' = CommandNotFound(mechanisms[1])
  /\ UNCHANGED <<tools, capabilities>>
  /\ UNCHANGED <<builderVars, planVars, setupVars, runVars, dlVars, ipcVars, xaVars, snapVars>>

\* the elevated child closes: with code 0, or with a failure of the command itself
ElevatedClose(ok) ==
  /\ elevCall.pc = "running"
  /\ elevCall' = [elevCall EXCEPT !.pc = "settled"]
  /\ elevError' = IF ok THEN "" ELSE "Command failed: "
  /\ UNCHANGED <<tools, capabilities, invoked>>
  /\ UNCHANGED <<builderVars, planVars, setupVars, runVars, dlVars, ipcVars, xaVars, snapVars>>

\* the caller has seen the outcome; the service takes its next call
ElevatedReturn ==
  /\ elevCall.pc = "settled"
  /\ elevCall' = NoElevatedCall
  /\ UNCHANGED <<tools, capabilities, invoked, elevError>>
  /\ UNCHANGED <<builderVars, planVars, setupVars, runVars, dlVars, ipcVars, xaVars, snapVars>>

ElevationInit ==
  /\ BuilderIdle /\ PlanIdle /\ SetupIdle /\ RunIdle /\ DownloadIdle /\ IpcIdle /\ ExtractIdle
  /\ tools \in Machines
  /\ capabilities = "unknown"
  /\ elevCall = NoElevatedCall
  /\ invoked = <<>>
  /\ elevError = ""
  /\ SnapshotIdle

ElevationNext ==
  \/ \E command \in ElevatedCommands : RunElevatedCommand(command)
  \/ ElevatedProbed
  \/ \E deps \in DependencySets : InstallAllElevated(deps)
  \/ ScriptElevates
  \/ \E ok \in BOOLEAN : ElevatedClose(ok)
  \/ ElevatedReturn

SpecElevation == ElevationInit /\ [][ElevationNext]_vars

\* C23: the mechanism through which a built script invokes its privileged
\* sub-script is the one checkSystemCapabilities selects on the machine:
\* pkexec when it is present, otherwise sudo.
C23_ScriptUsesSelectedMechanism ==
  (elevCall.op = "installAllDependencies" /\ invoked # <<>>
     /\ CheckSystemCapabilities(tools).hasPrivilegeEscalation)
    => invoked[1] = CheckSystemCapabilities(tools).elevationMethod

\* C24: when no elevation mechanism is detected, a privileged operation
\* (runElevatedCommand, or installAllDependencies with privileged commands)
\* settles without having invoked any elevation, with an error that names
\* the missing capability.
C24_FailsFastWithoutElevation ==
  (elevCall.pc = "settled" /\ ~CheckSystemCapabilities(tools).hasPrivilegeEscalation
     /\ (elevCall.op = "runElevatedCommand"
           \/ NumSudo(InstallAllCommands(elevCall.deps)) > 0))
    => (invoked = <<>> /\ elevError = NoEscalationMessage)

(***************************************************************************)
(* checkAllRequirements on a machine where external commands may hang      *)
(***************************************************************************)
\* the requirements whose probe runs an external command
CommandProbes == {"Node.js", "Claude Code CLI", "Claude Authentication"}

ProbesInit ==
  /\ BuilderIdle /\ PlanIdle /\ RunIdle /\ DownloadIdle /\ IpcIdle /\ ExtractIdle
  /\ ElevationIdle
  /\ SnapshotIdle
  /\ env \in Environments
  /\ hanging \in SUBSET CommandProbes
  /\ setupPc = "idle"
  /\ requirements = <<>>
  /\ chk = [i |-> 0, at |-> "idle"]
  /\ inFlight = {}
  /\ authProbed = FALSE
  /\ lastSnapshot = <<>>
  /\ checked = <<>>
  /\ execReturn = "none"
  /\ setupEvent = NoEvent
  /\ installationAttempted = FALSE

ProbesNext ==
  \/ CheckRequirements
  \/ CheckStep
  \/ ProbeTimeout
  \/ CheckReturn

SpecProbes == ProbesInit /\ [][ProbesNext]_vars

\* C25: every probe of checkAll is a bounded wait: a probe awaited on a
\* command that never completes has a timeout, and the requirement of a
\* probe that ran into its timeout is resolved to status error.
C25_BoundedProbes ==
  \A j \in DOMAIN requirements :
    requirements[j].name \in hanging =>
      /\ (chk.at = "await" /\ chk.i = j) => HasTimeout(requirements[j].name)
      /\ requirements[j].status \in {"checking", "skipped", "error"}

\* a step in which the awaited probe of requirement j ends in the catch block
\* (Node.js, Claude Code CLI and Claude Authentication become error only there)
ProbeThrew(j) ==
  /\ chk.at = "await" /\ chk.i = j
  /\ requirements'[j].status = "error"

\* C26: when the probe of one requirement throws during checkAll, only that
\* requirement is set to error: the statuses of the others are unchanged, the
\* loop goes on to the remaining requirements, and checkAll returns the full
\* list with every requirement resolved.
C26_ThrowIsolated ==
  /\ [][\A j \in 2..4 :
          ProbeThrew(j) =>
            /\ \A k \in (1..4) \ {j} : requirements'[k] = requirements[k]
            /\ chk' = [i |-> j, at |-> "delay"]
            /\ setupPc' = "check"]_vars
  /\ [](chk.at = "done" =>
          /\ checked = requirements
          /\ [j \in DOMAIN checked |-> checked[j].name] = RequirementNames
          /\ \A j \in 1..4 : checked[j].status \in Resolved)

C26_Witness ==
  /\ chk.at = "done"
  /\ checked[1].status = "found"
  /\ checked[2].status = "error"
  /\ checked[3].status = "found"
  /\ checked[4].status = "found"

\* the percents of the sentinel lines of a script, in the order bash writes them
SentinelPercents(s) ==
  LET main == FilterSeq(s, {l \in Range(s) : l.k = "progress"})
      sub  == FilterSeq(s, {l \in Range(s) : l.k = "sub-progress"})
      all  == SubSeq(main, 1, Len(main) - 1) \o sub \o SubSeq(main, Len(main), Len(main))
  IN [i \in 1..Len(all) |-> all[i].pct]

\* C27: every PROGRESS line the script writes is forwarded to the observer with
\* its percent, however the output is split into chunks: once a script has run
\* to its end and its output has been read, each of its sentinel percents has
\* been delivered.
C27_EverySentinelForwarded ==
  (sh.st = "exited" /\ sh.code = 0 /\ outBuf = <<>> /\ onProgressCallback)
    => \A i \in DOMAIN SentinelPercents(script) :
         \E k \in DOMAIN percents : percents[k] = SentinelPercents(script)[i]

\* C28: a cleanup issued while a download is in flight terminates the transfer,
\* whether it is a direct https download, one that followed a redirect, or a
\* local-file copy: for the rest of that run no further bytes are received and
\* the run does not reach stage complete.
C28_AbortTerminatesTransfer ==
  [][(dlCancelled /\ dlCancelled')
       => (dlReceived' = dlReceived /\ dlEvent'.stage # "complete")]_vars

\* C29: every progress sentinel line of a built script carries a percent
\* within 0..100, for any number of added commands.
C29_SentinelPercentInRange ==
  \A i \in DOMAIN script :
    script[i].k \in {"progress", "sub-progress"} => script[i].pct \in 0..100

\* C30: in a downloadBot run every event with stage downloading has a percent
\* of at most 50, whatever the ratio of received bytes to the declared size,
\* and an event with percent 100 has stage complete.
C30_DownloadingCapped ==
  /\ dlEvent.stage = "downloading" => dlEvent.progress <= Pct(50)
  /\ dlEvent.progress >= Pct(100) => (dlEvent.stage = "complete" /\ dlEvent.progress = Pct(100))

C30_Witness ==
  /\ dlEvent.stage = "downloading"
  /\ dlEvent.downloadedBytes > dlSize
  /\ dlEvent.progress = Pct(50)

(***************************************************************************)
(* The objects handed to the progress observer: updateProgress and the     *)
(* logOutput array of runInstallScript, by identity                        *)
(***************************************************************************)
\* at most this many lines of output arrive in one run
MaxLogLines == 3

\* the lines a 'data' handler pushes: stdout lines, and `stderr: ${text.trim()}`
OutputLines == {"Reading package lists...", "Setting up nodejs", "stderr: warning"}

\* updateProgress({ ..., logOutput: ref }): currentProgress is a new object whose
\* logOutput is the array `ref`; the observer is handed that object
Deliver(heap, ref) == Append(deliveredLogs, [ref |-> ref, seen |-> heap[ref]])

\* installAllDependencies: updateProgress({ step: 'Preparing installation', logOutput: [] })
SnapPrepare ==
  /\ snapPc = "idle"
  /\ arrays' = Append(arrays, <<>>)
  /\ progressLog' = Len(arrays')
  /\ deliveredLogs' = Deliver(arrays', progressLog')
  /\ snapPc' = "prepared"
  /\ UNCHANGED localLog
  /\ UNCHANGED <<builderVars, planVars, setupVars, runVars, dlVars, ipcVars, xaVars, elevVars>>

\* runInstallScript: const logOutput = this.currentProgress?.logOutput || [];
\* updateProgress({ currentCommand, logOutput: [...logOutput, `>>> ${description}`] })
SnapRunBegin ==
  /\ snapPc = "prepared"
  /\ localLog' = progressLog
  /\ arrays' = Append(arrays, Append(arrays[progressLog], ">>> Installing all dependencies"))
  /\ progressLog' = Len(arrays')
  /\ deliveredLogs' = Deliver(arrays', progressLog')
  /\ snapPc' = "running"
  /\ UNCHANGED <<builderVars, planVars, setupVars, runVars, dlVars, ipcVars, xaVars, elevVars>>

\* logOutput.push(line); this.updateProgress({ logOutput: [...logOutput] })
PushAndCopy(line) ==
  LET pushed == [arrays EXCEPT ![localLog] = Append(@, line)]
  IN /\ arrays' = Append(pushed, pushed[localLog])
     /\ progressLog' = Len(arrays')
     /\ deliveredLogs' = Deliver(arrays', progressLog')

\* child.stdout.on('data') / child.stderr.on('data') with one line that goes to the log
SnapData(line) ==
  /\ snapPc = "running"
  /\ Len(arrays[localLog]) < MaxLogLines
  /\ PushAndCopy(line)
  /\ UNCHANGED <<localLog, snapPc>>
  /\ UNCHANGED <<builderVars, planVars, setupVars, runVars, dlVars, ipcVars, xaVars, elevVars>>

\* child.on('close'): the line of the outcome is pushed and a copy delivered
SnapClose(code) ==
  /\ snapPc = "running"
  /\ PushAndCopy(IF code = 0 THEN "completed successfully" ELSE "Installation failed")
  /\ snapPc' = "closed"
  /\ UNCHANGED localLog
  /\ UNCHANGED <<builderVars, planVars, setupVars, runVars, dlVars, ipcVars, xaVars, elevVars>>

SnapshotInit ==
  /\ BuilderIdle /\ PlanIdle /\ SetupIdle /\ RunIdle /\ DownloadIdle /\ IpcIdle
  /\ ExtractIdle /\ ElevationIdle /\ SnapshotIdle

SnapshotNext ==
  \/ SnapPrepare
  \/ SnapRunBegin
  \/ \E line \in OutputLines : SnapData(line)
  \/ \E code \in {0, 1} : SnapClose(code)

SpecSnapshot == SnapshotInit /\ [][SnapshotNext]_vars

\* C31: a snapshot delivered to the observer is never modified afterwards by the
\* run that produced it: the log array of every delivered ProgressEvent still
\* holds what it held when it was delivered.
C31_DeliveredNotModified ==
  \A i \in DOMAIN deliveredLogs : arrays[deliveredLogs[i].ref] = deliveredLogs[i].seen

\* runElevatedCommand holds the object checkSystemCapabilities returned
Probed == elevCall.op = "runElevatedCommand" /\ elevCall.pc \in {"running", "settled"}

\* C32: on each of the eight machines checkSystemCapabilities returns an object:
\* elevationMethod is pkexec whenever pkexec is present, sudo only when pkexec is
\* absent and sudo present, undefined with hasPrivilegeEscalation false when
\* neither is; canInstallSystemPackages is true exactly when apt and an elevation
\* mechanism are both present.
C32_CapabilitiesByMachine ==
  Probed =>
    /\ capabilities.hasPackageManager = tools.apt
    /\ tools.pkexec => capabilities.elevationMethod = "pkexec"
    /\ capabilities.elevationMethod = "sudo" <=> (~tools.pkexec /\ tools.sudo)
    /\ (~tools.pkexec /\ ~tools.sudo) =>
         (capabilities.elevationMethod = "undefined" /\ ~capabilities.hasPrivilegeEscalation)
    /\ capabilities.hasPrivilegeEscalation = (tools.pkexec \/ tools.sudo)
    /\ capabilities.canInstallSystemPackages = (tools.apt /\ (tools.pkexec \/ tools.sudo))

C32_Witness ==
  /\ Probed
  /\ tools = [apt |-> TRUE, pkexec |-> FALSE, sudo |-> TRUE]
  /\ capabilities.elevationMethod = "sudo"
  /\ capabilities.canInstallSystemPackages

\* C33: on the single-tool install paths every generated script file is removed by
\* the time the attempt that created it ends, also when it fails: a later strategy
\* of the fallback chain starts with no script file left over.
C33_StrategyStartsClean ==
  instPc \in {"ns-save", "portable-download", "portable-extract"} => scriptFiles = 0

(***************************************************************************)
(* A built script as bash runs it: any mix of non-privileged and           *)
(* privileged commands, saved and spawned once                             *)
(***************************************************************************)
\* builder.addCommand(...) before the script is saved
ScriptAddCommand(requiresSudo) ==
  /\ instPc = "idle"
  /\ AddCommand(requiresSudo)

\* builder.saveToFile() and runInstallScript(scriptPath, description)
SaveAndRun == StrategyRun("idle", "Running the built script", "run-script")

ScriptInit ==
  /\ BuilderIdle /\ PlanIdle /\ SetupIdle /\ RunIdle /\ DownloadIdle /\ IpcIdle
  /\ ExtractIdle /\ ElevationIdle /\ SnapshotIdle

ScriptNext ==
  \/ \E requiresSudo \in BOOLEAN : ScriptAddCommand(requiresSudo)
  \/ SaveAndRun
  \/ ScriptStep

SpecScript == ScriptInit /\ [][ScriptNext]_vars

\* the 100% sentinel of the trailer has been written
FinalSentinelPrinted ==
  \E i \in DOMAIN outBuf :
    outBuf[i].k = "PROGRESS" /\ outBuf[i].pct = 100 /\ outBuf[i].txt = "Installation complete"

\* C34: in a built script a command runs only if every command before it exited
\* zero: once a command has failed the shell runs no further line (no later
\* command, no elevation, no sentinel), and the final 100% sentinel is printed
\* only if every command succeeded.
C34_StopsAtFirstFailure ==
  /\ [][(sh.failed /\ sh'.failed) => UNCHANGED <<sh, outBuf, env, sudoScript>>]_vars
  /\ [](sh.failed => (sh.st = "exited" /\ sh.code # 0))
  /\ [](FinalSentinelPrinted => ~sh.failed)

\* a non-privileged command failed in a script that also has privileged commands:
\* the sub-script was never created and nothing was elevated
C34_Witness ==
  /\ sh.failed
  /\ sh.code = 1
  /\ NumSudo(commands) > 0
  /\ Len(RegularCommands(commands)) > 1
  /\ ~sudoScript
  /\ sh.ret = 0
  /\ sh.pos < IndexOfKind(script, "mktemp")

\* C35: once a downloadBot run has emitted an event with stage complete or
\* error, it emits no further event, even if data events of the transfer still
\* arrive: the next event after a terminal one is the 'checking' of a new run.
C35_NoEventAfterTerminal ==
  [][(dlEvent.stage \in {"complete", "error"} /\ dlEvent' # dlEvent)
       => dlEvent'.stage = "checking"]_vars

\* the shell of the current script has run its pkexec line: the authentication
\* dialog was shown, whether it was then granted (the sub-script runs or has
\* returned) or dismissed
ElevationInvoked ==
  /\ sh.st # "none"
  /\ Elevations(script) > 0
  /\ \/ sh.ret > 0
     \/ sh.pos > IndexOfKind(script, "pkexec")
     \/ \E i \in DOMAIN sh.err : sh.err[i] = Err(FALSE, "Request dismissed")

\* C36: executing a plan that createInstallationPlan returned with
\* requiresSudo = false (installAllDependencies called with the names of its
\* items) never invokes the elevation mechanism.
C36_NoElevationWithoutSudoPlan ==
  (planPc = "started" /\ ~plan.requiresSudo /\ instPc # "all-save") => ~ElevationInvoked

\* The bundle download under fair scheduling: the event loop runs every callback
\* that is due, and the network and the file system answer every request that
\* is pending (with success or with a failure), so a step that stays possible
\* is eventually taken.
SpecDownloadLive == DownloadInit /\ [][DownloadNext]_vars /\ WF_vars(DownloadNext)

\* the run has sent its terminal event and returned
Returned ==
  /\ dlPc = "done"
  /\ dlEvent.stage \in {"complete", "error"}
  /\ dlReturn \in {"true", "false"}

\* C37: every downloadBot run eventually emits a terminal event (stage complete
\* or error) and returns, whatever happens to the transfer: an error of the
\* first request or of the redirected one, a redirect without location, a
\* status other than 200, a failure of the write stream.
C37_RunTerminates == Downloading ~> Returned

\* C38: in an installAllDependencies run an event with percent 100 is delivered
\* to the observer only if the run ends in success (the script exited zero and
\* every verification probe passed): a run that ended in failure has delivered
\* no percent 100.
C38_HundredOnlyOnSuccess ==
  instPromise = "rejected" => \A k \in DOMAIN percents : percents[k] # 100

\* s is a prefix of t
IsPrefix(s, t) == Len(s) <= Len(t) /\ SubSeq(t, 1, Len(s)) = s

\* C39: within one installation run the log buffer is append-only: the
\* logOutput of each event has the logOutput of the previous event of that run
\* as a prefix, so a line once reported never disappears from later events.
C39_LogAppendOnly ==
  [][(InstallAllRunning /\ InstallAllRunning' /\ onProgressCallback)
       => IsPrefix(currentProgress.logOutput, currentProgress'.logOutput)]_vars

(***************************************************************************)
(* installAllDependencies where the removal of the script file may fail.   *)
(***************************************************************************)
\* installAllDependencies(missingDeps), called once
InstallAllDependencies(deps) ==
  /\ instPc = "idle"
  /\ instPromise = "none"
  /\ UNCHANGED onProgressCallback
  /\ InstallAllBegin(deps)
  /\ UNCHANGED <<setupVars, planVars, dlVars, ipcVars, xaVars, elevVars, snapVars>>

RemovalInit == NodeJSInit

RemovalNext ==
  \/ \E deps \in (SUBSET {"Node.js", "Claude Code CLI"}) \ {{}} : InstallAllDependencies(deps)
  \/ InstallAllRun
  \/ ScriptStep
  \/ \E n \in 1..MaxChunk : StdoutData(n)
  \/ \E n \in 1..MaxChunk : StderrData(n)
  \/ ChildClose
  \/ ChildError
  \/ \E unlinkOk \in BOOLEAN : InstallAllSettleWith(unlinkOk)

SpecRemoval == RemovalInit /\ [][RemovalNext]_vars

\* C40: a failure of the removal of the script file does not change the outcome
\* of installAllDependencies: a run whose script exited zero and whose
\* verification probes passed is reported as success, and a failed run fails
\* with its original installation error.
C40_RemovalKeepsOutcome ==
  [][(instPc = "all-script" /\ instPc' = "idle") =>
       LET verr == VerificationError(missingDeps, env)
       IN IF scriptPromise = "resolved" /\ verr = ""
          THEN instPromise' = "resolved"
          ELSE /\ instPromise' = "rejected"
               /\ instError' = IF scriptPromise = "rejected" THEN instError ELSE verr]_vars

====
